---- MODULE Spec2Model ----
(***************************************************************************)
(* Model of the daily-installment loan ledger of native_be_lean: the Loan  *)
(* and EMI collections, the request handlers that settle installments      *)
(* (simulate, verify, mark-paid, verify-autopay, the razorpay webhook),    *)
(* approval / schedule generation and the overdue sweep.                   *)
(*                                                                         *)
(* Every handler is an async function; each `await` of a database call is  *)
(* one atomic step of the handler.  A step action performs the database    *)
(* call and the synchronous code that follows it up to the next await.     *)
(* Documents are Mongoose documents: doc.save() writes ($set) only the     *)
(* paths whose in-memory value differs from the value that was loaded.     *)
(***************************************************************************)
EXTENDS Integers, Sequences, FiniteSets, TLC

VARIABLES
  loans,       \* Loan collection: function from existing loan ids to documents
  emis,        \* EMI collection: function from existing EMI ids to documents
  notifs,      \* Notification collection (set of created records)
  nextLoanId,  \* next fresh Loan _id
  nextEmiId,   \* next fresh EMI _id
  today,       \* the current calendar day (days are integers, midnight-aligned)
  reqs,        \* the handler invocations in flight, one record per slot
  repays,      \* number of verify requests accepted for an installment already paid
  serial,      \* scheduling: TRUE when requests are served one at a time
  pre,         \* history: the collections as they were when the running request began
  lastSweep,   \* history: cutoff day of the sweep that completed last, nothing begun since
  subs         \* the gateway's subscription: its loan, billing cycles and charges made

vars == <<loans, emis, notifs, nextLoanId, nextEmiId, today, reqs, repays, serial, pre,
          lastSweep, subs>>

----------------------------------------------------------------------------
(* Bounds of the model *)

MaxDay == 3          \* the clock runs over days 0..MaxDay
MaxLoans == 1        \* loan applications accepted in one behaviour
MaxReqs == 2         \* request slots (handlers that can be in flight together)
MaxApplications == 2 \* loan applications accepted where applications overlap
MaxRepay == 1        \* verify requests accepted for an installment that is already paid

Users == {"u1", "u2"}
Applicants == {"u1"}         \* users who apply for a loan
Amounts == {1000}            \* requested amounts
DayChoices == {2}            \* totalDays an admin supplies on approval
BatchDayChoices == {8, 9}    \* totalDays of loans longer than one batch
PayIds == {"pay_A"}          \* gateway payment ids

(* Program constants *)

BatchSize == 7          \* .limit(7)
DefaultTotalDays == 100 \* loan application default
FixedInterestRate == 20 \* loan.interestRate = 20
MinAmount == 1000
MaxAmount == 100000
MinDays == 1
MaxDays == 365

NoDate == -1
NoRef == "null"

ReqIds == 1..MaxReqs

----------------------------------------------------------------------------
(* Arithmetic of the Loan model and of the schedule generator *)

\* a division that drops the remainder
FloorDiv(a, b) == a \div b

\* Math.ceil(a / b) for whole a >= 0 and b > 0
CeilDiv(a, b) == (a + b - 1) \div b

\* amount * (interestRate / 100), kept exact: in hundredths of a rupee, as
\* remainingBalance is, which inherits its fraction
TotalInterest(amount, rate) == amount * rate

\* a whole amount of rupees in hundredths
Hundredths(x) == 100 * x

\* a range check that lets every value pass
AnyValue(x, lo, hi) == TRUE

\* the range checks of the handlers: !(x < lo || x > hi)
InRange(x, lo, hi) == ~(x < lo \/ x > hi)

RECURSIVE SumOver(_, _)
\* sum of f[x] over the finite set S \subseteq DOMAIN f
SumOver(f, S) ==
  IF S = {} THEN 0
  ELSE LET x == CHOOSE y \in S : TRUE IN f[x] + SumOver(f, S \ {x})

----------------------------------------------------------------------------
(* Documents *)

\* new Loan({...}) with the schema defaults; remainingBalance is in hundredths
\* of a rupee, every other amount in rupees
NewLoan(user, amount) ==
  [ userId |-> user, amount |-> amount, status |-> "pending",
    totalDays |-> DefaultTotalDays, dailyEMI |-> 0, dailyInterest |-> 0,
    interestRate |-> 20, totalPaid |-> 0, remainingBalance |-> 0,
    penaltyAmount |-> 0, approvedAt |-> NoDate, startDate |-> NoDate,
    endDate |-> NoDate, autopayEnabled |-> FALSE,
    razorpaySubscriptionId |-> NoRef, autopayStatus |-> "none" ]

\* the body of loanSchema.pre('save'): dailyInterest, dailyEMI and
\* remainingBalance from amount, interestRate and totalDays.  dailyPrincipal is
\* the unrounded quotient and dailyInterest a whole number, so the ceiling of
\* their sum is the ceiling of the quotient plus dailyInterest.
\* terms whose opening balance is the principal alone
PrincipalOnlyBalance(mem) ==
  LET totalInterest == TotalInterest(mem.amount, mem.interestRate)
      dailyInterest == CeilDiv(totalInterest, Hundredths(mem.totalDays))
  IN [mem EXCEPT !.dailyInterest = dailyInterest,
                 !.dailyEMI = CeilDiv(mem.amount, mem.totalDays) + dailyInterest,
                 !.remainingBalance = Hundredths(mem.amount)]

DerivedTerms(mem) ==
  LET totalInterest == TotalInterest(mem.amount, mem.interestRate)
      dailyInterest == CeilDiv(totalInterest, Hundredths(mem.totalDays))
  IN [mem EXCEPT !.dailyInterest = dailyInterest,
                 !.dailyEMI = CeilDiv(mem.amount, mem.totalDays) + dailyInterest,
                 !.remainingBalance = Hundredths(mem.amount) + totalInterest]

\* a hook that computes the terms of a new loan only
TermsOnlyWhenNew(mem, loaded, isNew) == IF isNew THEN DerivedTerms(mem) ELSE mem

\* loanSchema.pre('save'): recompute the derived terms when the loan is new or
\* its amount or totalDays was modified
LoanPreSave(mem, loaded, isNew) ==
  IF isNew \/ mem.amount # loaded.amount \/ mem.totalDays # loaded.totalDays
  THEN DerivedTerms(mem)
  ELSE mem

\* an installment whose due date counts its day number from startDate itself
DueADayLate(loanId, user, day, principal, interest, startDate) ==
  [ loanId |-> loanId, userId |-> user, dayNumber |-> day,
    principalAmount |-> principal, interestAmount |-> interest,
    penaltyAmount |-> 0, totalAmount |-> principal + interest,
    dueDate |-> startDate + day, status |-> "pending",
    razorpayPaymentId |-> NoRef, paidAt |-> NoDate ]

\* new EMI({...}) of generateEMISchedule
NewEMI(loanId, user, day, principal, interest, startDate) ==
  [ loanId |-> loanId, userId |-> user, dayNumber |-> day,
    principalAmount |-> principal, interestAmount |-> interest,
    penaltyAmount |-> 0, totalAmount |-> principal + interest,
    dueDate |-> startDate + day - 1, status |-> "pending",
    razorpayPaymentId |-> NoRef, paidAt |-> NoDate ]

\* doc.save() of a loaded document: $set of the modified paths only.  cur is the
\* stored document, loaded the value that was read, mem the in-memory value;
\* the paths in always are written whatever their value (fresh Date objects).
SaveDoc(cur, loaded, mem, always) ==
  [f \in DOMAIN cur |-> IF f \in always \/ mem[f] # loaded[f] THEN mem[f] ELSE cur[f]]

\* placeholders of a request that holds no document
NullLoan == [NewLoan("u1", 0) EXCEPT !.status = "null"]
NullEMI == [NewEMI(0, "u1", 0, 0, 0, 0) EXCEPT !.status = "null"]

----------------------------------------------------------------------------
(* Requests *)

NoArg == -1   \* a body field that is absent (null)

(* Gateway signatures *)

\* crypto.createHmac('sha256', key).update(text).digest('hex'): a digest that two
\* inputs share only if key and text are the same
Hmac(key, text) == [key |-> key, text |-> text]

KeySecret == "RAZORPAY_KEY_SECRET"
WebhookSecret == "RAZORPAY_WEBHOOK_SECRET"
OrderId == "order_A"          \* razorpay_order_id of the checkout
SubscriptionId == "sub_A"     \* razorpay_subscription_id of the mandate

\* razorpay_order_id + '|' + razorpay_payment_id
VerifyBody(orderId, paymentId) == <<orderId, "|", paymentId>>

\* razorpay_payment_id + '|' + razorpay_subscription_id
AutopayBody(paymentId, subscriptionId) == <<paymentId, "|", subscriptionId>>

\* the raw body of a subscription.charged event
ChargedBody(loanId, paymentId) == <<"subscription.charged", ToString(loanId), paymentId>>

\* a comparison that lets every signature pass
AcceptsAnySignature(expected, sig) == TRUE

\* expectedSignature === razorpay_signature
IsAuthentic(expected, sig) == expected = sig

\* what the handler of each gateway request computes as expectedSignature
VerifySignature(payId) == Hmac(KeySecret, VerifyBody(OrderId, payId))
AutopaySignature(payId) == Hmac(KeySecret, AutopayBody(payId, SubscriptionId))
ChargedSignature(loanId, payId) == Hmac(WebhookSecret, ChargedBody(loanId, payId))

\* the raw body of a subscription.cancelled event and its signature
CancelledBody(loanId) == <<"subscription.cancelled", ToString(loanId)>>
CancelledSignature(loanId) == Hmac(WebhookSecret, CancelledBody(loanId))

\* signatures a forger can send: made with another key, or taken from another text
Forged(valid) == {Hmac("guess", valid.text), Hmac(valid.key, <<"other">>)}

NoSig == Hmac("", <<>>)

Idle ==
  [ op |-> "idle", pc |-> "idle", user |-> "u1", emiId |-> 0, loanId |-> 0,
    payId |-> NoRef, sig |-> NoSig, sigOk |-> TRUE, amount |-> 0, days |-> 0, now |-> 0,
    complete |-> TRUE,
    emi |-> NullEMI, loan |-> NullLoan, lmem |-> NullLoan,
    batch |-> <<>>, idx |-> 0, cnt |-> 0, cutoff |-> 0, code |-> 0 ]

NoPre == [loans |-> <<>>, emis |-> <<>>, notifs |-> {}, set |-> FALSE]
Snapshot == [loans |-> loans, emis |-> emis, notifs |-> notifs, set |-> TRUE]

\* the gateway before any subscription has been created
NoSubscription == [loanId |-> 0, total |-> 0, charged |-> 0]

InFlight == {r \in ReqIds : reqs[r].op # "idle"}

At(r, op, pc) == reqs[r].op = op /\ reqs[r].pc = pc

\* the request in slot r moves on; upd gives the fields that change.  now is the
\* time of the synchronous code that runs after the awaited call returned.
Move(r, upd) ==
  /\ reqs' = [reqs EXCEPT ![r] = [f \in DOMAIN Idle |->
               IF f \in DOMAIN upd THEN upd[f]
               ELSE IF f = "now" THEN today ELSE reqs[r][f]]]
  /\ UNCHANGED <<today, repays, serial, pre, lastSweep>>

\* a move that leaves the gateway as it is
Step(r, upd) == Move(r, upd) /\ UNCHANGED subs

\* the handler sends its response with the given status code
Respond(r, code) == Step(r, [pc |-> "done", code |-> code])

\* a request that is answered before its first await
Reject(code) == [pc |-> "done", code |-> code]

\* a request arrives in the free slot r and runs up to its second await: args
\* are its parameters, out is where it stands after its first database call
Begin(r, op, args, out) ==
  /\ reqs[r].op = "idle"
  /\ serial => InFlight = {}
  /\ reqs' = [reqs EXCEPT ![r] = [f \in DOMAIN Idle |->
               IF f \in DOMAIN out THEN out[f]
               ELSE IF f \in DOMAIN args THEN args[f]
               ELSE IF f = "op" THEN op
               ELSE IF f = "now" THEN today ELSE Idle[f]]]
  /\ pre' = IF InFlight = {} THEN Snapshot ELSE NoPre
  /\ lastSweep' = IF op = "sweep" THEN lastSweep ELSE NoDate
  /\ UNCHANGED <<today, serial>>

\* a request that changes no collection on arrival
BeginRead(r, op, args, out) ==
  /\ Begin(r, op, args, out)
  /\ UNCHANGED <<loans, emis, notifs, nextLoanId, nextEmiId, repays, subs>>

\* the gateway charges the next billing cycle of its subscription and the
\* notification of the charge arrives as a request
BeginCharged(r, op, args, out) ==
  /\ subs.charged < subs.total
  /\ subs' = [subs EXCEPT !.charged = @ + 1]
  /\ Begin(r, op, args, out)
  /\ UNCHANGED <<loans, emis, notifs, nextLoanId, nextEmiId, repays>>

\* the response has been sent: the slot is free again
Retire(r) ==
  /\ reqs[r].pc = "done"
  /\ reqs' = [reqs EXCEPT ![r] = Idle]
  /\ pre' = NoPre
  /\ lastSweep' = IF reqs[r].op = "sweep" /\ reqs[r].code = 200 THEN reqs[r].cutoff
                  ELSE lastSweep
  /\ UNCHANGED <<loans, emis, notifs, nextLoanId, nextEmiId, today, repays, serial, subs>>

\* the database call the handler in slot r is about to await fails (connection
\* lost, write error): nothing is written, the rejection reaches the handler's
\* catch (500), or the caller of processOverdueEMIs; only the webhook wraps its
\* Notification.create in a try/catch of its own
DbError(r) ==
  /\ reqs[r].pc \notin {"idle", "done"}
  /\ IF At(r, "charged", "notify") THEN Step(r, [pc |-> "done"]) ELSE Respond(r, 500)
  /\ UNCHANGED <<loans, emis, notifs, nextLoanId, nextEmiId>>

\* midnight passes
Tick ==
  /\ today < MaxDay
  /\ today' = today + 1
  /\ UNCHANGED <<loans, emis, notifs, nextLoanId, nextEmiId, reqs, repays, serial, pre,
                 lastSweep, subs>>

\* Notification.create({...})
Notify(type, title, forAdmin, user, loanId, emiId) ==
  notifs' = notifs \cup {[type |-> type, title |-> title, forAdmin |-> forAdmin,
                          userId |-> user, loanId |-> loanId, emiId |-> emiId]}

\* the unpaid installments of a loan: { loanId, status: { $ne: 'paid' } }
UnpaidOf(loanId) == {e \in DOMAIN emis : emis[e].loanId = loanId /\ emis[e].status # "paid"}

----------------------------------------------------------------------------
(* POST /api/loan/apply *)

\* validation, then Loan.findOne({ userId, status: 'pending' })
ApplyStart(user, amount) ==
  IF amount = NoArg \/ amount = 0 THEN Reject(400)
  ELSE IF ~InRange(amount, MinAmount, MaxAmount) THEN Reject(400)
  ELSE IF \E l \in DOMAIN loans : loans[l].userId = user /\ loans[l].status = "pending"
  THEN Reject(400)
  ELSE [pc |-> "save"]

\* the applications accepted so far, stored or about to be
Applications == nextLoanId - 1 + Cardinality({q \in ReqIds : At(q, "apply", "save")})

\* the handler up to await Loan.findOne
ApplyFind(r, user, amount) ==
  /\ Applications < MaxLoans
  /\ BeginRead(r, "apply", [user |-> user, amount |-> amount], ApplyStart(user, amount))

\* the same handler where a behaviour takes up to MaxApplications applications
ApplyAmong(r, user, amount) ==
  /\ Applications < MaxApplications
  /\ BeginRead(r, "apply", [user |-> user, amount |-> amount], ApplyStart(user, amount))

\* an application that lacks one of name, mobile, address, aadhaarNumber and
\* panNumber: answered 400 by the first check
ApplyIncomplete(r, user, amount) ==
  BeginRead(r, "apply", [user |-> user, amount |-> amount, complete |-> FALSE], Reject(400))

\* await loan.save() of the new document (pre-save hook, isNew)
ApplySave(r) ==
  /\ At(r, "apply", "save")
  /\ LET doc == NewLoan(reqs[r].user, reqs[r].amount)
     IN loans' = (nextLoanId :> LoanPreSave(doc, doc, TRUE)) @@ loans
  /\ nextLoanId' = nextLoanId + 1
  /\ Step(r, [pc |-> "notify", loanId |-> nextLoanId])
  /\ UNCHANGED <<emis, notifs, nextEmiId>>

\* Notification.create of the loan request; res.status(201)
ApplyNotify(r) ==
  /\ At(r, "apply", "notify")
  /\ Notify("loan_request", "New Loan Request", TRUE, reqs[r].user, reqs[r].loanId, 0)
  /\ Respond(r, 201)
  /\ UNCHANGED <<loans, emis, nextLoanId, nextEmiId>>

----------------------------------------------------------------------------
(* PUT /api/admin/loans/:id/approve and generateEMISchedule *)

\* the EMI documents generateEMISchedule builds for the in-memory loan
ScheduleDocs(loanId, loan, startDate) ==
  LET totalInterest == TotalInterest(loan.amount, FixedInterestRate)
      dailyPrincipal == CeilDiv(loan.amount, loan.totalDays)
      dailyInterest == CeilDiv(totalInterest, Hundredths(loan.totalDays))
  IN [day \in 1..loan.totalDays |->
        NewEMI(loanId, loan.userId, day, dailyPrincipal, dailyInterest, startDate)]

\* Loan.findById, the status and range checks, the in-memory changes and the
\* start of generateEMISchedule (startDate = tomorrow)
ApproveFind(r, loanId, amount, days) ==
  /\ BeginRead(r, "approve", [loanId |-> loanId, amount |-> amount, days |-> days],
       IF loanId \notin DOMAIN loans THEN Reject(404)
       ELSE IF loans[loanId].status # "pending" THEN Reject(400)
       ELSE IF amount # NoArg /\ ~InRange(amount, MinAmount, MaxAmount) THEN Reject(400)
       ELSE IF days # NoArg /\ ~InRange(days, MinDays, MaxDays) THEN Reject(400)
       ELSE [pc |-> "insertMany", loan |-> loans[loanId],
             lmem |-> [loans[loanId] EXCEPT
                        !.amount = IF amount # NoArg THEN amount ELSE @,
                        !.totalDays = IF days # NoArg THEN days ELSE @,
                        !.status = "approved",
                        !.interestRate = FixedInterestRate,
                        !.startDate = today + 1]])

\* await EMI.insertMany(emis); then the dates are set on the in-memory loan
ApproveInsertMany(r) ==
  /\ At(r, "approve", "insertMany")
  /\ LET m == reqs[r].lmem
         docs == ScheduleDocs(reqs[r].loanId, m, m.startDate)
     IN /\ emis' = [e \in DOMAIN emis \cup (nextEmiId..(nextEmiId + m.totalDays - 1)) |->
                      IF e \in DOMAIN emis THEN emis[e] ELSE docs[e - nextEmiId + 1]]
        /\ nextEmiId' = nextEmiId + m.totalDays
        /\ Step(r, [pc |-> "saveLoan",
                    lmem |-> [m EXCEPT !.endDate = m.startDate + m.totalDays - 1,
                                       !.approvedAt = today]])
  /\ UNCHANGED <<loans, notifs, nextLoanId>>

\* await loan.save() at the end of generateEMISchedule
ApproveSaveLoan(r) ==
  /\ At(r, "approve", "saveLoan")
  /\ LET id == reqs[r].loanId IN
       IF id \in DOMAIN loans
       THEN /\ loans' = [loans EXCEPT ![id] =
                 SaveDoc(@, reqs[r].loan, LoanPreSave(reqs[r].lmem, reqs[r].loan, FALSE), {})]
            /\ Step(r, [pc |-> "notify"])
       ELSE /\ UNCHANGED loans
            /\ Respond(r, 500)
  /\ UNCHANGED <<emis, notifs, nextLoanId, nextEmiId>>

\* Notification.create of the approval; res.json
ApproveNotify(r) ==
  /\ At(r, "approve", "notify")
  /\ Notify("loan_approved", "Loan Approved", FALSE, reqs[r].lmem.userId, reqs[r].loanId, 0)
  /\ Respond(r, 200)
  /\ UNCHANGED <<loans, emis, nextLoanId, nextEmiId>>

(* PUT /api/admin/loans/:id/reject *)

\* Loan.findById and the status check; loan.status = 'rejected' in memory
RejectLoanFind(r, loanId) ==
  BeginRead(r, "reject", [loanId |-> loanId],
    IF loanId \notin DOMAIN loans THEN Reject(404)
    ELSE IF loans[loanId].status # "pending" THEN Reject(400)
    ELSE [pc |-> "save", loan |-> loans[loanId],
          lmem |-> [loans[loanId] EXCEPT !.status = "rejected"]])

\* await loan.save(); res.json
RejectLoanSave(r) ==
  /\ At(r, "reject", "save")
  /\ LET id == reqs[r].loanId IN
       IF id \in DOMAIN loans
       THEN /\ loans' = [loans EXCEPT ![id] =
                 SaveDoc(@, reqs[r].loan, LoanPreSave(reqs[r].lmem, reqs[r].loan, FALSE), {})]
            /\ Respond(r, 200)
       ELSE /\ UNCHANGED loans
            /\ Respond(r, 500)
  /\ UNCHANGED <<emis, notifs, nextLoanId, nextEmiId>>

(* DELETE /api/admin/loans/:id *)

\* Loan.findById
DeleteFind(r, loanId) ==
  BeginRead(r, "delete", [loanId |-> loanId],
    IF loanId \notin DOMAIN loans THEN Reject(404)
    ELSE [pc |-> "deleteMany", loan |-> loans[loanId]])

\* await EMI.deleteMany({ loanId: loan._id })
DeleteMany(r) ==
  /\ At(r, "delete", "deleteMany")
  /\ emis' = [e \in {x \in DOMAIN emis : emis[x].loanId # reqs[r].loanId} |-> emis[e]]
  /\ Step(r, [pc |-> "deleteLoan"])
  /\ UNCHANGED <<loans, notifs, nextLoanId, nextEmiId>>

\* await Loan.findByIdAndDelete(loan._id); res.json
DeleteLoan(r) ==
  /\ At(r, "delete", "deleteLoan")
  /\ loans' = [l \in DOMAIN loans \ {reqs[r].loanId} |-> loans[l]]
  /\ Respond(r, 200)
  /\ UNCHANGED <<emis, notifs, nextLoanId, nextEmiId>>

----------------------------------------------------------------------------
(* Settlement of one installment: POST /api/payment/simulate,              *)
(* POST /api/payment/verify, PUT /api/admin/emis/:id/mark-paid             *)

\* emi.status = 'paid'; emi.razorpayPaymentId = ref; emi.paidAt = new Date()
PaidEMI(emi, ref, now) ==
  [emi EXCEPT !.status = "paid", !.razorpayPaymentId = ref, !.paidAt = now]

\* a credit that takes the penalty off the balance as well
CreditsWholeAmount(loan, emi) ==
  [loan EXCEPT !.totalPaid = @ + emi.totalAmount,
               !.remainingBalance = @ - Hundredths(emi.totalAmount)]

\* loan.totalPaid += emi.totalAmount;
\* loan.remainingBalance -= (emi.principalAmount + emi.interestAmount)
Credit(loan, emi) ==
  [loan EXCEPT !.totalPaid = @ + emi.totalAmount,
               !.remainingBalance = @ - Hundredths(emi.principalAmount + emi.interestAmount)]

\* if (pendingEMIs === 0) loan.status = 'completed'
CompleteIfNoneLeft(loan, count) ==
  IF count = 0 THEN [loan EXCEPT !.status = "completed"] ELSE loan

\* await emi.save() of the in-memory installment marked paid; a document that
\* is gone makes save() throw, which the handler's catch answers with 500
SettleSaveEmi(r, op, ref) ==
  /\ At(r, op, "saveEmi")
  /\ LET id == reqs[r].emiId IN
       IF id \in DOMAIN emis
       THEN /\ emis' = [emis EXCEPT ![id] =
                 SaveDoc(@, reqs[r].emi, PaidEMI(reqs[r].emi, ref, reqs[r].now), {"paidAt"})]
            /\ Step(r, [pc |-> "findLoan"])
       ELSE /\ UNCHANGED emis
            /\ Respond(r, 500)
  /\ UNCHANGED <<loans, notifs, nextLoanId, nextEmiId>>

\* const loan = await Loan.findById(emi.loanId); if (loan) { totals ... }
SettleFindLoan(r, op, pcNoLoan) ==
  /\ At(r, op, "findLoan")
  /\ LET id == reqs[r].emi.loanId IN
       IF id \in DOMAIN loans
       THEN Step(r, [pc |-> "count", loanId |-> id, loan |-> loans[id],
                     lmem |-> Credit(loans[id], reqs[r].emi)])
       ELSE Step(r, [pc |-> pcNoLoan, code |-> IF pcNoLoan = "done" THEN 200 ELSE 0])
  /\ UNCHANGED <<loans, emis, notifs, nextLoanId, nextEmiId>>

\* await EMI.countDocuments({ loanId, status: { $ne: 'paid' } }) and the
\* completion check
SettleCount(r, op) ==
  /\ At(r, op, "count")
  /\ LET n == Cardinality(UnpaidOf(reqs[r].loanId))
     IN Step(r, [pc |-> "saveLoan", cnt |-> n,
                 lmem |-> CompleteIfNoneLeft(reqs[r].lmem, n)])
  /\ UNCHANGED <<loans, emis, notifs, nextLoanId, nextEmiId>>

\* await loan.save()
SettleSaveLoan(r, op) ==
  /\ At(r, op, "saveLoan")
  /\ LET id == reqs[r].loanId IN
       IF id \in DOMAIN loans
       THEN /\ loans' = [loans EXCEPT ![id] =
                 SaveDoc(@, reqs[r].loan, LoanPreSave(reqs[r].lmem, reqs[r].loan, FALSE), {})]
            /\ Step(r, [pc |-> "notify"])
       ELSE /\ UNCHANGED loans
            /\ Respond(r, 500)
  /\ UNCHANGED <<emis, notifs, nextLoanId, nextEmiId>>

\* Notification.create of the payment; res.json
SettleNotify(r, op, title) ==
  /\ At(r, op, "notify")
  /\ Notify("emi_paid", title, TRUE, reqs[r].emi.userId, reqs[r].emi.loanId, reqs[r].emiId)
  /\ Respond(r, 200)
  /\ UNCHANGED <<loans, emis, nextLoanId, nextEmiId>>

(* POST /api/payment/simulate *)

\* EMI.findById, then the ownership and already-paid checks
SimulateFind(r, user, emiId) ==
  /\ BeginRead(r, "simulate", [user |-> user, emiId |-> emiId],
       IF emiId \notin DOMAIN emis THEN Reject(404)
       ELSE IF emis[emiId].userId # user THEN Reject(403)
       ELSE IF emis[emiId].status = "paid" THEN Reject(400)
       ELSE [pc |-> "saveEmi", emi |-> emis[emiId]])

SimulateSaveEmi(r) == SettleSaveEmi(r, "simulate", "sim")
SimulateFindLoan(r) == SettleFindLoan(r, "simulate", "done")
SimulateCount(r) == SettleCount(r, "simulate")
SimulateSaveLoan(r) == SettleSaveLoan(r, "simulate")
SimulateNotify(r) == SettleNotify(r, "simulate", "EMI Paid (Simulated)")

(* POST /api/payment/verify *)

\* the signature check, then EMI.findById; the installment is marked paid
\* whatever its status and owner
VerifyFind(r, user, emiId, payId, sig) ==
  LET sigOk == IsAuthentic(VerifySignature(payId), sig)
      again == sigOk /\ emiId \in DOMAIN emis /\ emis[emiId].status = "paid" IN
  /\ again => repays < MaxRepay
  /\ repays' = IF again THEN repays + 1 ELSE repays
  /\ Begin(r, "verify", [user |-> user, emiId |-> emiId, payId |-> payId,
                         sig |-> sig, sigOk |-> sigOk],
       IF ~sigOk THEN Reject(400)
       ELSE IF emiId \notin DOMAIN emis THEN Reject(404)
       ELSE [pc |-> "saveEmi", emi |-> emis[emiId]])
  /\ UNCHANGED <<loans, emis, notifs, nextLoanId, nextEmiId, subs>>

VerifySaveEmi(r) == SettleSaveEmi(r, "verify", reqs[r].payId)
VerifyFindLoan(r) == SettleFindLoan(r, "verify", "done")
VerifyCount(r) == SettleCount(r, "verify")
VerifySaveLoan(r) == SettleSaveLoan(r, "verify")
VerifyNotify(r) == SettleNotify(r, "verify", "EMI Paid")

(* PUT /api/admin/emis/:id/mark-paid *)

\* EMI.findById, then the already-paid check
MarkPaidFind(r, emiId) ==
  /\ BeginRead(r, "markPaid", [emiId |-> emiId],
       IF emiId \notin DOMAIN emis THEN Reject(404)
       ELSE IF emis[emiId].status = "paid" THEN Reject(400)
       ELSE [pc |-> "saveEmi", emi |-> emis[emiId]])

MarkPaidSaveEmi(r) == SettleSaveEmi(r, "markPaid", "admin")
MarkPaidFindLoan(r) == SettleFindLoan(r, "markPaid", "notify")
MarkPaidCount(r) == SettleCount(r, "markPaid")
MarkPaidSaveLoan(r) == SettleSaveLoan(r, "markPaid")
MarkPaidNotify(r) == SettleNotify(r, "markPaid", "EMI Marked Paid (Admin)")

----------------------------------------------------------------------------
(* processOverdueEMIs: the daily cron job and POST /api/admin/process-overdues *)

RECURSIVE InIdOrder(_)
\* a find() without sort returns the documents in insertion (_id) order; each
\* entry keeps the document as it was read
InIdOrder(S) ==
  IF S = {} THEN <<>>
  ELSE LET e == CHOOSE x \in S : \A y \in S : x <= y
       IN <<[id |-> e, doc |-> emis[e]]>> \o InIdOrder(S \ {e})

\* a query that takes every installment due before the cutoff, paid or not
LateWhateverStatus(cutoff) == {e \in DOMAIN emis : emis[e].dueDate < cutoff}

\* EMI.find({ status: { $in: ['pending', 'overdue'] }, dueDate: { $lt: today } })
LateEMIs(cutoff) ==
  {e \in DOMAIN emis : emis[e].status \in {"pending", "overdue"} /\ emis[e].dueDate < cutoff}

\* Math.round(diffTime / one day) for two midnights
DaysOverdue(emi, cutoff) == cutoff - emi.dueDate

\* the flat policy the accrual rule superseded: 120 per day late
FlatPenalty(emi, cutoff) == 120 * DaysOverdue(emi, cutoff)

\* an accrual that adds one day's penalty at every sweep
PerSweepPenalty(emi, cutoff) == emi.penaltyAmount + emi.interestAmount

\* penaltyPerDay * daysOverdue, penaltyPerDay = emi.interestAmount
NewPenalty(emi, cutoff) == emi.interestAmount * DaysOverdue(emi, cutoff)

\* a loop body without the "penalty has actually increased" test
SavesEveryLateEMI(emi, cutoff) == DaysOverdue(emi, cutoff) > 0

\* the loop body reaches emi.save(): daysOverdue > 0 and the penalty has grown
NeedsUpdate(emi, cutoff) ==
  DaysOverdue(emi, cutoff) > 0 /\ NewPenalty(emi, cutoff) > emi.penaltyAmount

\* an update that marks the installment overdue and charges nothing
OverdueUnpenalised(emi, cutoff) == [emi EXCEPT !.status = "overdue"]

\* an update that raises the penalty and leaves totalAmount as it was
StaleTotal(emi, cutoff) ==
  [emi EXCEPT !.status = "overdue", !.penaltyAmount = NewPenalty(emi, cutoff)]

\* the in-memory installment the loop saves
OverdueEMI(emi, cutoff) ==
  [emi EXCEPT !.status = "overdue",
              !.penaltyAmount = NewPenalty(emi, cutoff),
              !.totalAmount = emi.principalAmount + emi.interestAmount + NewPenalty(emi, cutoff)]

\* the loop runs on from entry i to the next entry it has to save, or past the end
NextToSave(batch, i, cutoff) ==
  LET S == {j \in i..Len(batch) : NeedsUpdate(batch[j].doc, cutoff)}
  IN IF S = {} THEN Len(batch) + 1 ELSE CHOOSE j \in S : \A k \in S : j <= k

\* where the sweep stands once its loop has run on to entry i
SweepOn(batch, i, cutoff) ==
  LET j == NextToSave(batch, i, cutoff)
  IN IF j > Len(batch) THEN [pc |-> "done", code |-> 200, idx |-> j]
     ELSE [pc |-> "saveEmi", idx |-> j]

\* today = start of the current day; await EMI.find(late installments)
SweepFind(r) ==
  LET batch == InIdOrder(LateEMIs(today)) IN
  BeginRead(r, "sweep", [cutoff |-> today, batch |-> batch, cnt |-> 0],
            SweepOn(batch, 1, today))

\* await emi.save() of the installment with its new penalty; a document that
\* is gone makes save() throw out of processOverdueEMIs
SweepSaveEmi(r) ==
  /\ At(r, "sweep", "saveEmi")
  /\ LET b == reqs[r].batch[reqs[r].idx] IN
       IF b.id \in DOMAIN emis
       THEN /\ emis' = [emis EXCEPT ![b.id] =
                 SaveDoc(@, b.doc, OverdueEMI(b.doc, reqs[r].cutoff), {})]
            /\ Step(r, [pc |-> "incLoan"])
       ELSE /\ UNCHANGED emis
            /\ Respond(r, 500)
  /\ UNCHANGED <<loans, notifs, nextLoanId, nextEmiId>>

\* the earlier policy's increment: the installment's whole penalty
WholePenalty(emi, cutoff) == NewPenalty(emi, cutoff)

\* const delta = newPenalty - oldPenalty, oldPenalty as it was read
PenaltyDelta(emi, cutoff) == NewPenalty(emi, cutoff) - emi.penaltyAmount

\* await Loan.findByIdAndUpdate(emi.loanId, { $inc: { penaltyAmount: delta } });
\* processedCount++ and the loop runs on
SweepIncLoan(r) ==
  /\ At(r, "sweep", "incLoan")
  /\ LET b == reqs[r].batch[reqs[r].idx]
         delta == PenaltyDelta(b.doc, reqs[r].cutoff)
     IN /\ loans' = [l \in DOMAIN loans |->
                       IF l = b.doc.loanId
                       THEN [loans[l] EXCEPT !.penaltyAmount = @ + delta]
                       ELSE loans[l]]
        /\ Step(r, [cnt |-> reqs[r].cnt + 1] @@
                   SweepOn(reqs[r].batch, reqs[r].idx + 1, reqs[r].cutoff))
  /\ UNCHANGED <<emis, notifs, nextLoanId, nextEmiId>>

----------------------------------------------------------------------------
(* Batched settlement: POST /api/payment/verify-autopay and the            *)
(* subscription.charged event of POST /api/webhooks/razorpay               *)

RECURSIVE ByDayNumber(_, _)
\* the first n documents of S in ascending dayNumber (insertion order on ties)
ByDayNumber(S, n) ==
  IF S = {} \/ n = 0 THEN <<>>
  ELSE LET e == CHOOSE x \in S : \A y \in S :
                  \/ emis[x].dayNumber < emis[y].dayNumber
                  \/ emis[x].dayNumber = emis[y].dayNumber /\ x <= y
       IN <<[id |-> e, doc |-> emis[e]]>> \o ByDayNumber(S \ {e}, n - 1)

\* a find that takes the 7 unpaid installments with the largest dayNumber
LatestUnpaid(loanId) ==
  LET U == UnpaidOf(loanId)
  IN ByDayNumber({e \in U : Cardinality({y \in U : emis[y].dayNumber > emis[e].dayNumber})
                              < BatchSize}, BatchSize)

\* EMI.find({ loanId, status: { $ne: 'paid' } }).sort({ dayNumber: 1 }).limit(7)
OldestUnpaid(loanId) == ByDayNumber(UnpaidOf(loanId), BatchSize)

\* one turn of the for loop: await emi.save() of batch entry idx marked paid,
\* then the in-memory loan is credited
BatchSaveEmi(r, op, pcAfter) ==
  /\ At(r, op, "saveEmi")
  /\ LET b == reqs[r].batch[reqs[r].idx] IN
       IF b.id \in DOMAIN emis
       THEN /\ emis' = [emis EXCEPT ![b.id] =
                 SaveDoc(@, b.doc, PaidEMI(b.doc, reqs[r].payId, reqs[r].now), {"paidAt"})]
            /\ Step(r, [pc |-> IF reqs[r].idx = Len(reqs[r].batch) THEN pcAfter ELSE "saveEmi",
                        idx |-> reqs[r].idx + 1,
                        lmem |-> Credit(reqs[r].lmem, b.doc)])
       ELSE /\ UNCHANGED emis
            /\ Respond(r, 500)
  /\ UNCHANGED <<loans, notifs, nextLoanId, nextEmiId>>

(* POST /api/payment/verify-autopay *)

\* where verify-autopay stands after the signature check and Loan.findById:
\* autopay is switched on in memory
VerifyAutopayStart(loanId, sigOk) ==
  IF ~sigOk THEN Reject(400)
  ELSE IF loanId \notin DOMAIN loans THEN Reject(404)
  ELSE [pc |-> "saveAutopay", loan |-> loans[loanId],
        lmem |-> [loans[loanId] EXCEPT !.autopayEnabled = TRUE,
                                       !.autopayStatus = "active"]]

\* the signature check, then Loan.findById; autopay is switched on in memory
VerifyAutopayFind(r, loanId, payId, sig) ==
  LET sigOk == IsAuthentic(AutopaySignature(payId), sig) IN
  BeginRead(r, "verifyAutopay", [loanId |-> loanId, payId |-> payId,
                                 sig |-> sig, sigOk |-> sigOk],
            VerifyAutopayStart(loanId, sigOk))

\* await loan.save() of the autopay fields; the saved values are the
\* document's new baseline
VerifyAutopaySaveAutopay(r) ==
  /\ At(r, "verifyAutopay", "saveAutopay")
  /\ LET id == reqs[r].loanId IN
       IF id \in DOMAIN loans
       THEN /\ loans' = [loans EXCEPT ![id] =
                 SaveDoc(@, reqs[r].loan, LoanPreSave(reqs[r].lmem, reqs[r].loan, FALSE), {})]
            /\ Step(r, [pc |-> "findBatch", loan |-> reqs[r].lmem])
       ELSE /\ UNCHANGED loans
            /\ Respond(r, 500)
  /\ UNCHANGED <<emis, notifs, nextLoanId, nextEmiId>>

\* const firstBatch = await EMI.find(...).sort({ dayNumber: 1 }).limit(7)
VerifyAutopayFindBatch(r) ==
  /\ At(r, "verifyAutopay", "findBatch")
  /\ LET batch == OldestUnpaid(reqs[r].loanId)
     IN Step(r, [pc |-> IF batch = <<>> THEN "saveLoan" ELSE "saveEmi",
                 batch |-> batch, idx |-> 1])
  /\ UNCHANGED <<loans, emis, notifs, nextLoanId, nextEmiId>>

VerifyAutopaySaveEmi(r) == BatchSaveEmi(r, "verifyAutopay", "saveLoan")

\* await loan.save() of the totals: no completion check precedes it
VerifyAutopaySaveLoan(r) ==
  /\ At(r, "verifyAutopay", "saveLoan")
  /\ LET id == reqs[r].loanId IN
       IF id \in DOMAIN loans
       THEN /\ loans' = [loans EXCEPT ![id] =
                 SaveDoc(@, reqs[r].loan, LoanPreSave(reqs[r].lmem, reqs[r].loan, FALSE), {})]
            /\ Step(r, [pc |-> "notify"])
       ELSE /\ UNCHANGED loans
            /\ Respond(r, 500)
  /\ UNCHANGED <<emis, notifs, nextLoanId, nextEmiId>>

\* Notification.create; res.json
VerifyAutopayNotify(r) ==
  /\ At(r, "verifyAutopay", "notify")
  /\ Notify("emi_paid", "Autopay Activated", TRUE, reqs[r].lmem.userId, reqs[r].loanId, 0)
  /\ Respond(r, 200)
  /\ UNCHANGED <<loans, emis, nextLoanId, nextEmiId>>

(* subscription.charged: router.post('/') and handleSubscriptionCharged *)

\* where the webhook stands after the signature check and the find of up to 7
\* unpaid installments
ChargedStart(loanId, sigOk) ==
  LET batch == OldestUnpaid(loanId) IN
  IF ~sigOk THEN Reject(400)
  ELSE IF batch = <<>> THEN Reject(200)
  ELSE [pc |-> "findLoan", code |-> 200, batch |-> batch, idx |-> 1]

\* the signature check of the webhook; the event is answered 200 at once and
\* handled afterwards, starting with the find of up to 7 unpaid installments
ChargedFind(r, loanId, payId, sig) ==
  LET sigOk == IsAuthentic(ChargedSignature(loanId, payId), sig) IN
  BeginRead(r, "charged", [loanId |-> loanId, payId |-> payId,
                           sig |-> sig, sigOk |-> sigOk],
            ChargedStart(loanId, sigOk))

\* const loan = await Loan.findById(loanId); if (!loan) return
ChargedFindLoan(r) ==
  /\ At(r, "charged", "findLoan")
  /\ LET id == reqs[r].loanId IN
       IF id \in DOMAIN loans
       THEN Step(r, [pc |-> "saveEmi", loan |-> loans[id], lmem |-> loans[id]])
       ELSE Step(r, [pc |-> "done"])
  /\ UNCHANGED <<loans, emis, notifs, nextLoanId, nextEmiId>>

ChargedSaveEmi(r) == BatchSaveEmi(r, "charged", "count")

\* await EMI.countDocuments(unpaid) and the completion check
ChargedCount(r) ==
  /\ At(r, "charged", "count")
  /\ LET n == Cardinality(UnpaidOf(reqs[r].loanId))
     IN Step(r, [pc |-> "saveLoan", cnt |-> n,
                 lmem |-> CompleteIfNoneLeft(reqs[r].lmem, n)])
  /\ UNCHANGED <<loans, emis, notifs, nextLoanId, nextEmiId>>

\* await loan.save()
ChargedSaveLoan(r) ==
  /\ At(r, "charged", "saveLoan")
  /\ LET id == reqs[r].loanId IN
       IF id \in DOMAIN loans
       THEN /\ loans' = [loans EXCEPT ![id] =
                 SaveDoc(@, reqs[r].loan, LoanPreSave(reqs[r].lmem, reqs[r].loan, FALSE), {})]
            /\ Step(r, [pc |-> "notify"])
       ELSE /\ UNCHANGED loans
            /\ Step(r, [pc |-> "done"])
  /\ UNCHANGED <<emis, notifs, nextLoanId, nextEmiId>>

\* Notification.create inside try/catch
ChargedNotify(r) ==
  /\ At(r, "charged", "notify")
  /\ Notify("emi_paid", "EMI Paid (Autopay)", TRUE, reqs[r].lmem.userId, reqs[r].loanId, 0)
  /\ Step(r, [pc |-> "done"])
  /\ UNCHANGED <<loans, emis, nextLoanId, nextEmiId>>

(* POST /api/payment/setup-autopay; the gateway customer id is not part of the
   loan record here *)

\* Loan.findById, the ownership check and the already-active check
SetupAutopayFind(r, user, loanId) ==
  BeginRead(r, "setupAutopay", [user |-> user, loanId |-> loanId],
    IF loanId \notin DOMAIN loans THEN Reject(404)
    ELSE IF loans[loanId].userId # user THEN Reject(403)
    ELSE IF loans[loanId].autopayEnabled /\ loans[loanId].autopayStatus = "active"
    THEN Reject(400)
    ELSE [pc |-> "count", loan |-> loans[loanId], lmem |-> loans[loanId]])

\* await EMI.countDocuments(unpaid); none left is answered 400
SetupAutopayCount(r) ==
  /\ At(r, "setupAutopay", "count")
  /\ LET n == Cardinality(UnpaidOf(reqs[r].loanId))
     IN IF n = 0 THEN Respond(r, 400) ELSE Step(r, [pc |-> "subscribe", cnt |-> n])
  /\ UNCHANGED <<loans, emis, notifs, nextLoanId, nextEmiId>>

\* const billingCycles = Math.ceil(pendingEMIs / 7)
BillingCycles(pendingEMIs) == CeilDiv(pendingEMIs, BatchSize)

\* the plan and the subscription are created at the gateway with total_count
\* billingCycles; the subscription id and the pending status are set in memory
SetupAutopaySubscribe(r) ==
  /\ At(r, "setupAutopay", "subscribe")
  /\ subs' = [loanId |-> reqs[r].loanId, total |-> BillingCycles(reqs[r].cnt), charged |-> 0]
  /\ Move(r, [pc |-> "save",
              lmem |-> [reqs[r].lmem EXCEPT !.razorpaySubscriptionId = SubscriptionId,
                                            !.autopayStatus = "pending"]])
  /\ UNCHANGED <<loans, emis, notifs, nextLoanId, nextEmiId>>

\* await loan.save(); res.json
SetupAutopaySave(r) ==
  /\ At(r, "setupAutopay", "save")
  /\ LET id == reqs[r].loanId IN
       IF id \in DOMAIN loans
       THEN /\ loans' = [loans EXCEPT ![id] =
                 SaveDoc(@, reqs[r].loan, LoanPreSave(reqs[r].lmem, reqs[r].loan, FALSE), {})]
            /\ Respond(r, 200)
       ELSE /\ UNCHANGED loans
            /\ Respond(r, 500)
  /\ UNCHANGED <<emis, notifs, nextLoanId, nextEmiId>>

(* POST /api/payment/cancel-autopay *)

\* Loan.findById, the ownership check and the subscription check
CancelAutopayFind(r, user, loanId) ==
  BeginRead(r, "cancelAutopay", [user |-> user, loanId |-> loanId],
    IF loanId \notin DOMAIN loans THEN Reject(404)
    ELSE IF loans[loanId].userId # user THEN Reject(403)
    ELSE IF loans[loanId].razorpaySubscriptionId = NoRef THEN Reject(400)
    ELSE [pc |-> "gateway", loan |-> loans[loanId], lmem |-> loans[loanId]])

\* await razorpay.subscriptions.cancel(...); autopay is switched off in memory
CancelAutopayGateway(r) ==
  /\ At(r, "cancelAutopay", "gateway")
  /\ Step(r, [pc |-> "save",
              lmem |-> [reqs[r].lmem EXCEPT !.autopayEnabled = FALSE,
                                            !.autopayStatus = "cancelled"]])
  /\ UNCHANGED <<loans, emis, notifs, nextLoanId, nextEmiId>>

\* await loan.save(); res.json
CancelAutopaySave(r) ==
  /\ At(r, "cancelAutopay", "save")
  /\ LET id == reqs[r].loanId IN
       IF id \in DOMAIN loans
       THEN /\ loans' = [loans EXCEPT ![id] =
                 SaveDoc(@, reqs[r].loan, LoanPreSave(reqs[r].lmem, reqs[r].loan, FALSE), {})]
            /\ Respond(r, 200)
       ELSE /\ UNCHANGED loans
            /\ Respond(r, 500)
  /\ UNCHANGED <<emis, notifs, nextLoanId, nextEmiId>>

(* subscription.cancelled: router.post('/') and handleSubscriptionCancelled *)

\* the signature check of the webhook; the event is answered 200 at once
CancelledFind(r, loanId, sig) ==
  LET sigOk == IsAuthentic(CancelledSignature(loanId), sig) IN
  BeginRead(r, "cancelled", [loanId |-> loanId, sig |-> sig, sigOk |-> sigOk],
    IF ~sigOk THEN Reject(400)
    ELSE [pc |-> "update", code |-> 200])

\* await Loan.findByIdAndUpdate(loanId, { autopayEnabled: false,
\* autopayStatus: 'cancelled' }): an atomic $set, nothing if the loan is gone
CancelledUpdate(r) ==
  /\ At(r, "cancelled", "update")
  /\ LET id == reqs[r].loanId IN
       loans' = IF id \in DOMAIN loans
                THEN [loans EXCEPT ![id].autopayEnabled = FALSE,
                                   ![id].autopayStatus = "cancelled"]
                ELSE loans
  /\ Step(r, [pc |-> "done"])
  /\ UNCHANGED <<emis, notifs, nextLoanId, nextEmiId>>

----------------------------------------------------------------------------
(* Specifications *)

Empty ==
  /\ loans = <<>>
  /\ emis = <<>>
  /\ notifs = {}
  /\ nextLoanId = 1
  /\ nextEmiId = 1
  /\ today = 0
  /\ reqs = [r \in ReqIds |-> Idle]
  /\ pre = NoPre
  /\ lastSweep = NoDate
  /\ repays = 0
  /\ subs = NoSubscription

\* an empty database; the server handles one request at a time
Init == Empty /\ serial = TRUE

EmiArgs == DOMAIN emis       \* the installment ids a request names
LoanArgs == DOMAIN loans     \* the loan ids a request names

\* the steps of the handlers after their first await
Continue(r) ==
  \/ ApplySave(r) \/ ApplyNotify(r)
  \/ ApproveInsertMany(r) \/ ApproveSaveLoan(r) \/ ApproveNotify(r)
  \/ SimulateSaveEmi(r) \/ SimulateFindLoan(r) \/ SimulateCount(r)
  \/ SimulateSaveLoan(r) \/ SimulateNotify(r)
  \/ VerifySaveEmi(r) \/ VerifyFindLoan(r) \/ VerifyCount(r)
  \/ VerifySaveLoan(r) \/ VerifyNotify(r)
  \/ MarkPaidSaveEmi(r) \/ MarkPaidFindLoan(r) \/ MarkPaidCount(r)
  \/ MarkPaidSaveLoan(r) \/ MarkPaidNotify(r)
  \/ SweepSaveEmi(r) \/ SweepIncLoan(r)
  \/ VerifyAutopaySaveAutopay(r) \/ VerifyAutopayFindBatch(r) \/ VerifyAutopaySaveEmi(r)
  \/ VerifyAutopaySaveLoan(r) \/ VerifyAutopayNotify(r)
  \/ ChargedFindLoan(r) \/ ChargedSaveEmi(r) \/ ChargedCount(r)
  \/ ChargedSaveLoan(r) \/ ChargedNotify(r)

\* requests served one at a time, in any order, as days pass
Next ==
  \/ Tick
  \/ \E r \in ReqIds :
       \/ Retire(r)
       \/ Continue(r)
       \/ \E u \in Applicants, a \in Amounts : ApplyFind(r, u, a)
       \/ \E l \in LoanArgs, d \in DayChoices : ApproveFind(r, l, NoArg, d)
       \/ \E e \in EmiArgs : SimulateFind(r, emis[e].userId, e)
       \/ \E e \in EmiArgs, p \in PayIds : VerifyFind(r, emis[e].userId, e, p, VerifySignature(p))
       \/ \E e \in EmiArgs : MarkPaidFind(r, e)
       \/ SweepFind(r)
       \/ \E l \in LoanArgs, p \in PayIds : VerifyAutopayFind(r, l, p, AutopaySignature(p))
       \/ \E l \in LoanArgs, p \in PayIds : ChargedFind(r, l, p, ChargedSignature(l, p))

Spec == Init /\ [][Next]_vars

\* loans long enough for one charge not to cover them: approval and the batched
\* settlements, served one at a time
NextBatch ==
  \E r \in ReqIds :
    \/ Retire(r)
    \/ \E u \in Applicants, a \in Amounts : ApplyFind(r, u, a)
    \/ ApplySave(r) \/ ApplyNotify(r)
    \/ \E l \in LoanArgs, d \in BatchDayChoices : ApproveFind(r, l, NoArg, d)
    \/ ApproveInsertMany(r) \/ ApproveSaveLoan(r) \/ ApproveNotify(r)
    \/ \E l \in LoanArgs, p \in PayIds : VerifyAutopayFind(r, l, p, AutopaySignature(p))
    \/ VerifyAutopaySaveAutopay(r) \/ VerifyAutopayFindBatch(r) \/ VerifyAutopaySaveEmi(r)
    \/ VerifyAutopaySaveLoan(r) \/ VerifyAutopayNotify(r)
    \/ \E l \in LoanArgs, p \in PayIds : ChargedFind(r, l, p, ChargedSignature(l, p))
    \/ ChargedFindLoan(r) \/ ChargedSaveEmi(r) \/ ChargedCount(r)
    \/ ChargedSaveLoan(r) \/ ChargedNotify(r)

SpecBatch == Init /\ [][NextBatch]_vars

\* the admin's decisions on an application, requests overlapping: each await
\* is a point of interleaving
InitAdmin == Empty /\ serial = FALSE

NextAdmin ==
  \E r \in ReqIds :
    \/ Retire(r)
    \/ \E u \in Applicants, a \in Amounts : ApplyFind(r, u, a)
    \/ ApplySave(r) \/ ApplyNotify(r)
    \/ \E l \in LoanArgs, d \in DayChoices : ApproveFind(r, l, NoArg, d)
    \/ ApproveInsertMany(r) \/ ApproveSaveLoan(r) \/ ApproveNotify(r)
    \/ \E l \in LoanArgs : RejectLoanFind(r, l)
    \/ RejectLoanSave(r)

SpecAdmin == InitAdmin /\ [][NextAdmin]_vars

\* loan applications of one user overlapping each other and the admin's
\* rejections
NextApply ==
  \E r \in ReqIds :
    \/ Retire(r)
    \/ \E u \in Applicants, a \in Amounts : ApplyAmong(r, u, a)
    \/ ApplySave(r) \/ ApplyNotify(r)
    \/ \E l \in LoanArgs : RejectLoanFind(r, l)
    \/ RejectLoanSave(r)

SpecApply == InitAdmin /\ [][NextApply]_vars

\* requests served one at a time whose database calls may fail; the admin does
\* not send a second approve for a loan whose schedule has been inserted
NextFail ==
  \/ Tick
  \/ \E r \in ReqIds :
       \/ Retire(r)
       \/ DbError(r)
       \/ \E u \in Applicants, a \in Amounts : ApplyFind(r, u, a)
       \/ ApplySave(r) \/ ApplyNotify(r)
       \/ \E l \in LoanArgs, d \in DayChoices :
            /\ \A e \in DOMAIN emis : emis[e].loanId # l
            /\ ApproveFind(r, l, NoArg, d)
       \/ ApproveInsertMany(r) \/ ApproveSaveLoan(r) \/ ApproveNotify(r)
       \/ \E e \in EmiArgs : SimulateFind(r, emis[e].userId, e)
       \/ SimulateSaveEmi(r) \/ SimulateFindLoan(r) \/ SimulateCount(r)
       \/ SimulateSaveLoan(r) \/ SimulateNotify(r)
       \/ SweepFind(r)
       \/ SweepSaveEmi(r) \/ SweepIncLoan(r)

SpecFail == Init /\ [][NextFail]_vars

\* gateway-sourced settlements served one at a time, their signatures genuine
\* or forged
NextGateway ==
  \E r \in ReqIds :
    \/ Retire(r)
    \/ \E u \in Applicants, a \in Amounts : ApplyFind(r, u, a)
    \/ ApplySave(r) \/ ApplyNotify(r)
    \/ \E l \in LoanArgs, d \in DayChoices : ApproveFind(r, l, NoArg, d)
    \/ ApproveInsertMany(r) \/ ApproveSaveLoan(r) \/ ApproveNotify(r)
    \/ \E e \in EmiArgs, p \in PayIds :
         \E sig \in {VerifySignature(p)} \cup Forged(VerifySignature(p)) :
           VerifyFind(r, emis[e].userId, e, p, sig)
    \/ VerifySaveEmi(r) \/ VerifyFindLoan(r) \/ VerifyCount(r)
    \/ VerifySaveLoan(r) \/ VerifyNotify(r)
    \/ \E l \in LoanArgs, p \in PayIds :
         \E sig \in {AutopaySignature(p)} \cup Forged(AutopaySignature(p)) :
           VerifyAutopayFind(r, l, p, sig)
    \/ VerifyAutopaySaveAutopay(r) \/ VerifyAutopayFindBatch(r) \/ VerifyAutopaySaveEmi(r)
    \/ VerifyAutopaySaveLoan(r) \/ VerifyAutopayNotify(r)
    \/ \E l \in LoanArgs, p \in PayIds :
         \E sig \in {ChargedSignature(l, p)} \cup Forged(ChargedSignature(l, p)) :
           ChargedFind(r, l, p, sig)
    \/ ChargedFindLoan(r) \/ ChargedSaveEmi(r) \/ ChargedCount(r)
    \/ ChargedSaveLoan(r) \/ ChargedNotify(r)

SpecGateway == Init /\ [][NextGateway]_vars

\* the user-facing payment endpoints called by any authenticated user for any
\* installment, with a payment the gateway has signed; one request at a time
NextOwner ==
  \E r \in ReqIds :
    \/ Retire(r)
    \/ \E u \in Applicants, a \in Amounts : ApplyFind(r, u, a)
    \/ ApplySave(r) \/ ApplyNotify(r)
    \/ \E l \in LoanArgs, d \in DayChoices : ApproveFind(r, l, NoArg, d)
    \/ ApproveInsertMany(r) \/ ApproveSaveLoan(r) \/ ApproveNotify(r)
    \/ \E u \in Users, e \in EmiArgs : SimulateFind(r, u, e)
    \/ SimulateSaveEmi(r) \/ SimulateFindLoan(r) \/ SimulateCount(r)
    \/ SimulateSaveLoan(r) \/ SimulateNotify(r)
    \/ \E u \in Users, e \in EmiArgs, p \in PayIds : VerifyFind(r, u, e, p, VerifySignature(p))
    \/ VerifySaveEmi(r) \/ VerifyFindLoan(r) \/ VerifyCount(r)
    \/ VerifySaveLoan(r) \/ VerifyNotify(r)

SpecOwner == Init /\ [][NextOwner]_vars

\* the admin deletes a loan (second slot) while it is being approved or one of
\* its installments settled (first slot)
NextDelete ==
  \E r \in ReqIds :
    \/ Retire(r)
    \/ r = 1 /\ \E u \in Applicants, a \in Amounts : ApplyFind(r, u, a)
    \/ ApplySave(r) \/ ApplyNotify(r)
    \/ r = 1 /\ \E l \in LoanArgs, d \in DayChoices : ApproveFind(r, l, NoArg, d)
    \/ ApproveInsertMany(r) \/ ApproveSaveLoan(r) \/ ApproveNotify(r)
    \/ r = 1 /\ \E e \in EmiArgs : SimulateFind(r, emis[e].userId, e)
    \/ SimulateSaveEmi(r) \/ SimulateFindLoan(r) \/ SimulateCount(r)
    \/ SimulateSaveLoan(r) \/ SimulateNotify(r)
    \/ r # 1 /\ \E l \in LoanArgs : DeleteFind(r, l)
    \/ DeleteMany(r) \/ DeleteLoan(r)

SpecDelete == InitAdmin /\ [][NextDelete]_vars

\* the gateway has created the subscription of some loan: only then can a
\* payment of that subscription carry the gateway's signature
Subscribed == \E l \in DOMAIN loans : loans[l].razorpaySubscriptionId = SubscriptionId

\* the autopay mandate of a loan: set up, authenticated, cancelled by the
\* borrower or at the gateway (the event names the loan in the subscription's
\* notes), requests served one at a time
NextAutopay ==
  \E r \in ReqIds :
    \/ Retire(r)
    \/ \E u \in Applicants, a \in Amounts : ApplyFind(r, u, a)
    \/ ApplySave(r) \/ ApplyNotify(r)
    \/ \E l \in LoanArgs, d \in DayChoices : ApproveFind(r, l, NoArg, d)
    \/ ApproveInsertMany(r) \/ ApproveSaveLoan(r) \/ ApproveNotify(r)
    \/ \E u \in Users, l \in LoanArgs : SetupAutopayFind(r, u, l)
    \/ SetupAutopayCount(r) \/ SetupAutopaySubscribe(r) \/ SetupAutopaySave(r)
    \/ Subscribed /\ \E l \in LoanArgs, p \in PayIds : VerifyAutopayFind(r, l, p, AutopaySignature(p))
    \/ VerifyAutopaySaveAutopay(r) \/ VerifyAutopayFindBatch(r) \/ VerifyAutopaySaveEmi(r)
    \/ VerifyAutopaySaveLoan(r) \/ VerifyAutopayNotify(r)
    \/ \E u \in Users, l \in LoanArgs : CancelAutopayFind(r, u, l)
    \/ CancelAutopayGateway(r) \/ CancelAutopaySave(r)
    \/ \E l \in LoanArgs : /\ loans[l].razorpaySubscriptionId = SubscriptionId
                            /\ CancelledFind(r, l, CancelledSignature(l))
    \/ CancelledUpdate(r)

SpecAutopay == Init /\ [][NextAutopay]_vars

\* the first charge of a subscription is made when the borrower authenticates
\* the mandate at the checkout; the client reports it to verify-autopay
CheckoutCharge(r, p) ==
  LET l == subs.loanId
      sig == AutopaySignature(p)
      sigOk == IsAuthentic(AutopaySignature(p), sig) IN
  /\ subs.charged = 0
  /\ BeginCharged(r, "verifyAutopay",
                  [loanId |-> l, payId |-> p, sig |-> sig, sigOk |-> sigOk],
                  VerifyAutopayStart(l, sigOk))

\* the gateway reports the charge of a cycle with a subscription.charged event
WebhookCharge(r, p) ==
  LET l == subs.loanId
      sig == ChargedSignature(l, p)
      sigOk == IsAuthentic(ChargedSignature(l, p), sig) IN
  BeginCharged(r, "charged",
               [loanId |-> l, payId |-> p, sig |-> sig, sigOk |-> sigOk],
               ChargedStart(l, sigOk))

\* one subscription per loan, the charge of each billing cycle delivered
\* exactly once, through the checkout (first cycle) or the webhook, and no
\* other settlement; requests served one at a time
NextCycles ==
  \E r \in ReqIds :
    \/ Retire(r)
    \/ \E u \in Applicants, a \in Amounts : ApplyFind(r, u, a)
    \/ ApplySave(r) \/ ApplyNotify(r)
    \/ \E l \in LoanArgs, d \in DayChoices \cup BatchDayChoices : ApproveFind(r, l, NoArg, d)
    \/ ApproveInsertMany(r) \/ ApproveSaveLoan(r) \/ ApproveNotify(r)
    \/ \E l \in LoanArgs : subs = NoSubscription /\ SetupAutopayFind(r, loans[l].userId, l)
    \/ SetupAutopayCount(r) \/ SetupAutopaySubscribe(r) \/ SetupAutopaySave(r)
    \/ \E p \in PayIds : CheckoutCharge(r, p)
    \/ VerifyAutopaySaveAutopay(r) \/ VerifyAutopayFindBatch(r) \/ VerifyAutopaySaveEmi(r)
    \/ VerifyAutopaySaveLoan(r) \/ VerifyAutopayNotify(r)
    \/ \E p \in PayIds : WebhookCharge(r, p)
    \/ ChargedFindLoan(r) \/ ChargedSaveEmi(r) \/ ChargedCount(r)
    \/ ChargedSaveLoan(r) \/ ChargedNotify(r)

SpecCycles == Init /\ [][NextCycles]_vars

\* the amounts and durations of applications and approvals, inside and outside
\* the accepted ranges
ApplyAmounts == {1000, 10000}
TermAmounts == {1000, 1004, 10000, 54321, 100000}
BadAmounts == {999, 100001}
TermDays == {1, 3, 7, 365}
BadDays == {0, 366}

\* applications and approvals over the range of loan terms, served one at a time
NextTerms ==
  \E r \in ReqIds :
    \/ Retire(r)
    \/ \E u \in Applicants, a \in {NoArg} \cup ApplyAmounts \cup BadAmounts : ApplyFind(r, u, a)
    \/ \E u \in Applicants, a \in ApplyAmounts : ApplyIncomplete(r, u, a)
    \/ ApplySave(r) \/ ApplyNotify(r)
    \/ \E l \in LoanArgs, a \in {NoArg} \cup TermAmounts \cup BadAmounts,
          d \in {NoArg} \cup TermDays \cup BadDays : ApproveFind(r, l, a, d)
    \/ ApproveInsertMany(r) \/ ApproveSaveLoan(r) \/ ApproveNotify(r)

SpecTerms == Init /\ [][NextTerms]_vars

\* approvals of loans of several durations on any day, midnight passing at
\* any point
NextCalendar ==
  \/ Tick
  \/ \E r \in ReqIds :
       \/ Retire(r)
       \/ \E u \in Applicants, a \in Amounts : ApplyFind(r, u, a)
       \/ ApplySave(r) \/ ApplyNotify(r)
       \/ \E l \in LoanArgs, d \in {NoArg} \cup TermDays : ApproveFind(r, l, NoArg, d)
       \/ ApproveInsertMany(r) \/ ApproveSaveLoan(r) \/ ApproveNotify(r)

SpecCalendar == Init /\ [][NextCalendar]_vars

\* the state in which user u's application for amount a has been approved on
\* day 0 with totalDays d and both requests have completed
Approved(u, a, d) ==
  LET applied == LoanPreSave(NewLoan(u, a), NewLoan(u, a), TRUE)
      mem == [applied EXCEPT !.totalDays = d, !.status = "approved",
                             !.interestRate = FixedInterestRate,
                             !.startDate = 1, !.endDate = d, !.approvedAt = 0]
  IN /\ loans = (1 :> SaveDoc(applied, applied, LoanPreSave(mem, applied, FALSE), {}))
     /\ emis = ScheduleDocs(1, mem, 1)
     /\ notifs = {[type |-> "loan_request", title |-> "New Loan Request", forAdmin |-> TRUE,
                   userId |-> u, loanId |-> 1, emiId |-> 0],
                  [type |-> "loan_approved", title |-> "Loan Approved", forAdmin |-> FALSE,
                   userId |-> u, loanId |-> 1, emiId |-> 0]}
     /\ nextLoanId = 2
     /\ nextEmiId = d + 1
     /\ today = 0
     /\ reqs = [r \in ReqIds |-> Idle]
     /\ pre = NoPre
     /\ lastSweep = NoDate
     /\ repays = 0
     /\ subs = NoSubscription

\* an approved loan; requests overlap, each await is a point of interleaving
InitConc ==
  /\ \E u \in Applicants, a \in Amounts, d \in DayChoices : Approved(u, a, d)
  /\ serial = FALSE

\* the borrower's autopay requests and the gateway's cancellation event
\* overlapping; verify-autopay arrives once per subscription, for the charge
\* made at the checkout
NextMandate ==
  \E r \in ReqIds :
    \/ Retire(r)
    \/ \E l \in LoanArgs : SetupAutopayFind(r, loans[l].userId, l)
    \/ SetupAutopayCount(r) \/ SetupAutopaySubscribe(r) \/ SetupAutopaySave(r)
    \/ \E p \in PayIds : Subscribed /\ CheckoutCharge(r, p)
    \/ VerifyAutopaySaveAutopay(r) \/ VerifyAutopayFindBatch(r) \/ VerifyAutopaySaveEmi(r)
    \/ VerifyAutopaySaveLoan(r) \/ VerifyAutopayNotify(r)
    \/ \E l \in LoanArgs : CancelAutopayFind(r, loans[l].userId, l)
    \/ CancelAutopayGateway(r) \/ CancelAutopaySave(r)
    \/ \E l \in LoanArgs : /\ loans[l].razorpaySubscriptionId = SubscriptionId
                            /\ CancelledFind(r, l, CancelledSignature(l))
    \/ CancelledUpdate(r)

SpecMandate == InitConc /\ [][NextMandate]_vars

\* overlapping single settlements of one loan's installments
NextRace ==
  \E r \in ReqIds :
    \/ Retire(r)
    \/ \E e \in EmiArgs : SimulateFind(r, emis[e].userId, e)
    \/ SimulateSaveEmi(r) \/ SimulateFindLoan(r) \/ SimulateCount(r)
    \/ SimulateSaveLoan(r) \/ SimulateNotify(r)
    \/ \E e \in EmiArgs : MarkPaidFind(r, e)
    \/ MarkPaidSaveEmi(r) \/ MarkPaidFindLoan(r) \/ MarkPaidCount(r)
    \/ MarkPaidSaveLoan(r) \/ MarkPaidNotify(r)

SpecRace == InitConc /\ [][NextRace]_vars

\* a borrower's settlements (first slot) overlapping with overdue sweeps (the
\* cron tick and the admin's process-overdues call, other slots) as days pass
NextConc ==
  \/ Tick
  \/ \E r \in ReqIds :
       \/ Retire(r)
       \/ r = 1 /\ \E e \in EmiArgs : SimulateFind(r, emis[e].userId, e)
       \/ SimulateSaveEmi(r) \/ SimulateFindLoan(r) \/ SimulateCount(r)
       \/ SimulateSaveLoan(r) \/ SimulateNotify(r)
       \/ r # 1 /\ SweepFind(r)
       \/ SweepSaveEmi(r) \/ SweepIncLoan(r)

SpecConc == InitConc /\ [][NextConc]_vars

\* the overdue sweep between serial settlements as days pass
NextSweep ==
  \/ Tick
  \/ \E r \in ReqIds :
       \/ Retire(r)
       \/ \E u \in Applicants, a \in Amounts : ApplyFind(r, u, a)
       \/ ApplySave(r) \/ ApplyNotify(r)
       \/ \E l \in LoanArgs, d \in DayChoices : ApproveFind(r, l, NoArg, d)
       \/ ApproveInsertMany(r) \/ ApproveSaveLoan(r) \/ ApproveNotify(r)
       \/ \E e \in EmiArgs : MarkPaidFind(r, e)
       \/ MarkPaidSaveEmi(r) \/ MarkPaidFindLoan(r) \/ MarkPaidCount(r)
       \/ MarkPaidSaveLoan(r) \/ MarkPaidNotify(r)
       \/ SweepFind(r)
       \/ SweepSaveEmi(r) \/ SweepIncLoan(r)

SpecSweep == Init /\ [][NextSweep]_vars

\* the cron job's run and the admin's process-overdues call overlapping
NextSweeps ==
  \/ Tick
  \/ \E r \in ReqIds :
       \/ Retire(r)
       \/ SweepFind(r)
       \/ SweepSaveEmi(r) \/ SweepIncLoan(r)

SpecSweeps == InitConc /\ [][NextSweeps]_vars

----------------------------------------------------------------------------
(* Ledger quantities the claims speak about *)

EmisOf(l) == {e \in DOMAIN emis : emis[e].loanId = l}
PaidOf(l) == {e \in EmisOf(l) : emis[e].status = "paid"}

\* sum of totalAmount over the paid installments of loan l
PaidTotal(l) == SumOver([e \in DOMAIN emis |-> emis[e].totalAmount], PaidOf(l))

\* sum of principalAmount + interestAmount over the paid installments of loan l
PaidBase(l) ==
  SumOver([e \in DOMAIN emis |-> emis[e].principalAmount + emis[e].interestAmount], PaidOf(l))

\* no request is in flight: every operation that began has completed
Quiescent == InFlight = {}

\* request r has sent its response and began with no other request in flight
DoneAlone(r) == reqs[r].pc = "done" /\ pre.set

SingleSettlements == {"simulate", "verify", "markPaid"}

----------------------------------------------------------------------------
(* Claims *)

\* C1: in every state reached by completed operations, loan.totalPaid equals the
\* sum of totalAmount over the loan's installments whose status is paid.
C1_TotalPaidIsSumOfPaid ==
  Quiescent => \A l \in DOMAIN loans : loans[l].totalPaid = PaidTotal(l)

\* C2: for every approved or completed loan, remainingBalance equals
\* (amount + totalInterest) minus the sum of principal + interest of its paid
\* installments.
C2_RemainingBalanceIsBaseMinusPaid ==
  Quiescent =>
    \A l \in DOMAIN loans :
      loans[l].status \in {"approved", "completed"} =>
        loans[l].remainingBalance =
          Hundredths(loans[l].amount) + TotalInterest(loans[l].amount, loans[l].interestRate)
            - Hundredths(PaidBase(l))

\* C3: a loan that has installments is completed if and only if every one of its
\* installments is paid.
C3_CompletedIffAllPaid ==
  Quiescent =>
    \A l \in DOMAIN loans :
      EmisOf(l) # {} => (loans[l].status = "completed" <=> UnpaidOf(l) = {})

\* C4: a single-installment settlement (simulate, verify, mark-paid) invoked on an
\* installment that is already paid is rejected and changes neither the
\* installment nor the loan.
C4_SettlingPaidIsRejected ==
  \A r \in ReqIds :
    ( /\ DoneAlone(r)
      /\ reqs[r].op \in SingleSettlements
      /\ reqs[r].emiId \in DOMAIN pre.emis
      /\ pre.emis[reqs[r].emiId].status = "paid" )
    => reqs[r].code = 400 /\ emis = pre.emis /\ loans = pre.loans

\* the settlement requests that pay up to 7 installments for one gateway charge
BatchedSettlements == {"verifyAutopay", "charged"}

\* the installments that carry payment reference p
CarrierOf(p) == {e \in DOMAIN emis : emis[e].razorpayPaymentId = p}

\* C5: one external charge is credited at most once: a batched settlement whose
\* payment reference was already recorded on an installment settles nothing
\* more and leaves totalPaid alone, so no reference is carried by more than 7
\* installments.
C5_ChargeCreditedOnce ==
  /\ \A p \in PayIds : Cardinality(CarrierOf(p)) <= BatchSize
  /\ \A r \in ReqIds :
       ( /\ DoneAlone(r)
         /\ reqs[r].op \in BatchedSettlements
         /\ \E e \in DOMAIN pre.emis : pre.emis[e].razorpayPaymentId = reqs[r].payId )
       => /\ emis = pre.emis
          /\ \A l \in DOMAIN loans \cap DOMAIN pre.loans :
               loans[l].totalPaid = pre.loans[l].totalPaid

\* C6: paid is terminal under every interleaving: no step of any operation
\* changes the status of a paid installment.
C6_PaidIsTerminal ==
  [][\A e \in DOMAIN emis \cap DOMAIN emis' :
       emis[e].status = "paid" => emis'[e].status = "paid"]_vars

\* C7: an installment's penaltyAmount never decreases, and once the installment
\* is paid neither its penaltyAmount nor its totalAmount changes.
C7_PenaltyMonotoneFrozenWhenPaid ==
  [][\A e \in DOMAIN emis \cap DOMAIN emis' :
       /\ emis'[e].penaltyAmount >= emis[e].penaltyAmount
       /\ emis[e].status = "paid" =>
            /\ emis'[e].penaltyAmount = emis[e].penaltyAmount
            /\ emis'[e].totalAmount = emis[e].totalAmount]_vars

\* C8: concurrent settlements of different unpaid installments of one loan are
\* all credited: once they have completed, totalPaid is no less than the sum
\* over the paid installments and remainingBalance no more than what is left.
C8_NoLostSettlement ==
  Quiescent =>
    \A l \in DOMAIN loans :
      /\ loans[l].totalPaid >= PaidTotal(l)
      /\ loans[l].status \in {"approved", "completed"} =>
           loans[l].remainingBalance <=
             Hundredths(loans[l].amount) + TotalInterest(loans[l].amount, loans[l].interestRate)
               - Hundredths(PaidBase(l))

\* a sweep that ran alone has returned
SweepDone(r) == At(r, "sweep", "done") /\ reqs[r].code = 200 /\ pre.set

\* the sweep in slot r ran right after a completed sweep of the same day
SecondSweepDone(r) == SweepDone(r) /\ lastSweep = reqs[r].cutoff

\* C9: of two sweeps run on the same day with no other operation in between, the
\* second modifies no installment and no loan and returns a count of 0
C9_SecondSweepIsNoOp ==
  \A r \in ReqIds :
    SecondSweepDone(r) =>
      /\ emis = pre.emis
      /\ loans = pre.loans
      /\ reqs[r].cnt = 0

\* a second sweep has returned on a day whose first sweep penalised an installment
C9_SecondSweepAfterPenalty ==
  \E r \in ReqIds :
    /\ SecondSweepDone(r)
    /\ \E e \in DOMAIN emis :
         /\ emis[e].status = "overdue"
         /\ emis[e].penaltyAmount > 0
         /\ emis[e].penaltyAmount = NewPenalty(emis[e], reqs[r].cutoff)
         /\ loans[emis[e].loanId].penaltyAmount > 0

\* C10: after a sweep with cutoff = start of the current day, every installment
\* that is pending or overdue and due before the cutoff is overdue, carries
\* penaltyAmount = interestAmount * (whole days from dueDate to cutoff) and
\* totalAmount = principalAmount + interestAmount + penaltyAmount
C10_SweepPenalisesLate ==
  \A r \in ReqIds :
    SweepDone(r) =>
      \A e \in DOMAIN emis :
        emis[e].status \in {"pending", "overdue"} /\ emis[e].dueDate < reqs[r].cutoff =>
          /\ emis[e].status = "overdue"
          /\ emis[e].penaltyAmount = emis[e].interestAmount * (reqs[r].cutoff - emis[e].dueDate)
          /\ emis[e].totalAmount =
               emis[e].principalAmount + emis[e].interestAmount + emis[e].penaltyAmount

\* a sweep has returned having raised the penalty of an installment that is two
\* days late, next to an installment that is paid
C10_SweepPenalisedTwoDays ==
  \E r \in ReqIds :
    /\ SweepDone(r)
    /\ reqs[r].cnt > 0
    /\ \E e \in DOMAIN emis :
         /\ emis[e].status = "overdue"
         /\ reqs[r].cutoff - emis[e].dueDate = 2
         /\ emis[e].penaltyAmount = 2 * emis[e].interestAmount
         /\ emis[e].penaltyAmount # pre.emis[e].penaltyAmount
    /\ \E p \in DOMAIN emis : emis[p].status = "paid" /\ emis[p].dueDate < reqs[r].cutoff

\* the sum of penaltyAmount over the installments of loan l
PenaltyOfEmis(l) == SumOver([e \in DOMAIN emis |-> emis[e].penaltyAmount], EmisOf(l))

\* no sweep stands between the save of an installment and the $inc of its loan
NoSweepMidUpdate == \A r \in ReqIds : ~At(r, "sweep", "incLoan")

\* C11: after any sequence of sweeps and settlements, loan.penaltyAmount equals the
\* sum of penaltyAmount over the loan's installments (the sweep adds only deltas)
C11_LoanPenaltyIsSumOfEmiPenalties ==
  NoSweepMidUpdate =>
    \A l \in DOMAIN loans : loans[l].penaltyAmount = PenaltyOfEmis(l)

\* a sweep has returned that raised a penalty an earlier day's sweep had already
\* set, on a loan that also has a paid installment
C11_SweepRaisedExistingPenalty ==
  \E r \in ReqIds :
    /\ SweepDone(r)
    /\ \E e \in DOMAIN emis :
         /\ pre.emis[e].penaltyAmount > 0
         /\ emis[e].penaltyAmount > pre.emis[e].penaltyAmount
         /\ loans[emis[e].loanId].penaltyAmount > pre.loans[emis[e].loanId].penaltyAmount
         /\ \E p \in EmisOf(emis[e].loanId) : emis[p].status = "paid"

\* C12: overlapping sweeps do not double-apply a penalty: once they have returned,
\* each loan's penaltyAmount is the sum of its installments' penalties, every
\* delta having been added exactly once
C12_NoDoubleAppliedPenalty ==
  Quiescent =>
    \A l \in DOMAIN loans :
      SumOver([e \in DOMAIN emis |-> emis[e].penaltyAmount], EmisOf(l)) = loans[l].penaltyAmount

\* the sum of totalAmount over the installments of loan l
TotalOfEmis(l) == SumOver([e \in DOMAIN emis |-> emis[e].totalAmount], EmisOf(l))

\* C13: for every approved loan, the installments' totalAmount add up to
\* loan.amount + totalInterest + loan.penaltyAmount, totalInterest being
\* amount * interestRate / 100
C13_InstallmentsAddUpToLoan ==
  Quiescent =>
    \A l \in DOMAIN loans :
      loans[l].status \in {"approved", "completed"} =>
        Hundredths(TotalOfEmis(l)) =
          Hundredths(loans[l].amount) + TotalInterest(loans[l].amount, loans[l].interestRate)
            + Hundredths(loans[l].penaltyAmount)

\* the installments of loan l that carry dayNumber d
OnDay(l, d) == {e \in EmisOf(l) : emis[e].dayNumber = d}

\* C14: for every loan that has installments, the dayNumber values are exactly
\* 1..totalDays, each appearing once, also after repeated or overlapping approve
\* requests for the loan
C14_DayNumbersAreOneToN ==
  Quiescent =>
    \A l \in DOMAIN loans :
      EmisOf(l) # {} =>
        /\ \A e \in EmisOf(l) : emis[e].dayNumber \in 1..loans[l].totalDays
        /\ \A d \in 1..loans[l].totalDays : Cardinality(OnDay(l, d)) = 1

\* C15: schedule generation is all-or-nothing: when an approve request for a
\* pending loan has ended, failed or not, either all totalDays installments exist
\* and the loan is stored approved with startDate, endDate and approvedAt, or no
\* installment exists and the loan is still pending
C15_ScheduleIsAllOrNothing ==
  \A r \in ReqIds :
    (DoneAlone(r) /\ reqs[r].op = "approve" /\ reqs[r].loanId \in DOMAIN pre.loans) =>
      LET l == reqs[r].loanId IN
      pre.loans[l].status = "pending" =>
        \/ /\ EmisOf(l) = {}
           /\ loans[l].status = "pending"
        \/ /\ Cardinality(EmisOf(l)) = loans[l].totalDays
           /\ loans[l].status = "approved"
           /\ loans[l].startDate # NoDate
           /\ loans[l].endDate # NoDate
           /\ loans[l].approvedAt # NoDate

\* the installments a request that began alone has turned paid
NewlyPaid(l) == {e \in EmisOf(l) : emis[e].status = "paid" /\ pre.emis[e].status # "paid"}

\* C16: settlement and sweep never partially commit: when a request on an approved
\* loan whose database call failed has ended, every installment it saved as paid
\* has its totalAmount in loan.totalPaid, and every penalty it wrote is in
\* loan.penaltyAmount
C16_NoPartialCommit ==
  \A r \in ReqIds :
    (DoneAlone(r) /\ reqs[r].code = 500 /\ reqs[r].op \in {"simulate", "sweep"}) =>
      \A l \in DOMAIN loans :
        pre.loans[l].status = "approved" =>
        /\ loans[l].totalPaid - pre.loans[l].totalPaid
             = SumOver([e \in DOMAIN emis |-> emis[e].totalAmount], NewlyPaid(l))
        /\ loans[l].penaltyAmount - pre.loans[l].penaltyAmount
             = SumOver([e \in DOMAIN emis |-> emis[e].penaltyAmount - pre.emis[e].penaltyAmount],
                       EmisOf(l))

\* the installments of loan l that were unpaid when the request began
PreUnpaid(l) == {e \in DOMAIN pre.emis : pre.emis[e].loanId = l /\ pre.emis[e].status # "paid"}

\* those of them with fewer than 7 unpaid installments of smaller dayNumber
DueForBatch(l) ==
  {e \in PreUnpaid(l) :
     Cardinality({y \in PreUnpaid(l) : pre.emis[y].dayNumber < pre.emis[e].dayNumber}) < 7}

\* a batched settlement with a valid signature for an existing loan has ended
BatchDone(r) ==
  /\ DoneAlone(r)
  /\ reqs[r].op \in BatchedSettlements
  /\ reqs[r].code = 200
  /\ reqs[r].loanId \in DOMAIN pre.loans

\* C17: a batched settlement marks paid exactly the min(7, u) unpaid installments of
\* the loan with the smallest dayNumber, leaves every other installment unchanged
\* and adds the sum of their totalAmount to loan.totalPaid
C17_BatchSettlesOldestSeven ==
  \A r \in ReqIds :
    BatchDone(r) =>
      LET l == reqs[r].loanId
          u == Cardinality(PreUnpaid(l))
      IN /\ Cardinality(DueForBatch(l)) = (IF u < 7 THEN u ELSE 7)
         /\ \A e \in DueForBatch(l) : emis[e].status = "paid"
         /\ \A e \in DOMAIN emis \ DueForBatch(l) : emis[e] = pre.emis[e]
         /\ loans[l].totalPaid = pre.loans[l].totalPaid
              + SumOver([e \in DOMAIN pre.emis |-> pre.emis[e].totalAmount], DueForBatch(l))

\* a batched settlement has ended on a loan that had more than 7 unpaid
\* installments: 7 are newly paid and a later one is still unpaid
C17_BatchOfSevenSettled ==
  \E r \in ReqIds :
    /\ BatchDone(r)
    /\ Cardinality(PreUnpaid(reqs[r].loanId)) > 7
    /\ Cardinality(NewlyPaid(reqs[r].loanId)) = 7
    /\ UnpaidOf(reqs[r].loanId) # {}
    /\ loans[reqs[r].loanId].totalPaid > pre.loans[reqs[r].loanId].totalPaid

\* the request in slot r came from the gateway's side with a signature that is
\* not the HMAC-SHA256 of its canonical string
BadSignature(r) ==
  \/ reqs[r].op = "verify"
       /\ reqs[r].sig # Hmac(KeySecret, <<OrderId, "|", reqs[r].payId>>)
  \/ reqs[r].op = "verifyAutopay"
       /\ reqs[r].sig # Hmac(KeySecret, <<reqs[r].payId, "|", SubscriptionId>>)
  \/ reqs[r].op = "charged"
       /\ reqs[r].sig # Hmac(WebhookSecret, ChargedBody(reqs[r].loanId, reqs[r].payId))

\* C18: a gateway-sourced settlement request whose signature does not match is
\* rejected before any mutation: no installment, loan or notification changes
C18_BadSignatureChangesNothing ==
  \A r \in ReqIds :
    (reqs[r].op \in {"verify", "verifyAutopay", "charged"} /\ pre.set /\ BadSignature(r)) =>
      /\ reqs[r].pc = "done"
      /\ reqs[r].code = 400
      /\ emis = pre.emis
      /\ loans = pre.loans
      /\ notifs = pre.notifs

\* a forged charge for a loan with unpaid installments has been answered
C18_ForgedChargeAnswered ==
  \E r \in ReqIds :
    /\ DoneAlone(r)
    /\ reqs[r].op = "charged"
    /\ BadSignature(r)
    /\ reqs[r].sig.key = WebhookSecret
    /\ reqs[r].loanId \in DOMAIN loans
    /\ UnpaidOf(reqs[r].loanId) # {}
    /\ \E e \in DOMAIN emis : emis[e].status = "paid"

\* the moves of the loan state machine
LoanMoves == {<<"pending", "approved">>, <<"approved", "completed">>, <<"pending", "rejected">>}

\* C19: a loan's status changes only along pending -> approved -> completed or
\* pending -> rejected, also when an approve and a reject of the same pending loan
\* interleave
C19_LoanStatusFollowsMachine ==
  [][\A l \in DOMAIN loans \cap DOMAIN loans' :
       loans'[l].status # loans[l].status =>
         <<loans[l].status, loans'[l].status>> \in LoanMoves]_vars

\* C20: an installment's settlement metadata is written exactly once: once it is
\* paid, no later step changes its paidAt or its payment reference
C20_SettlementMetadataWrittenOnce ==
  [][\A e \in DOMAIN emis \cap DOMAIN emis' :
       emis[e].status = "paid" =>
         /\ emis'[e].paidAt = emis[e].paidAt
         /\ emis'[e].razorpayPaymentId = emis[e].razorpayPaymentId]_vars

\* the single settlement in slot r, which began alone on an unpaid installment of
\* an approved loan, has made both of its ledger writes: the installment is paid and the loan credited
LedgerWritten(r) ==
  /\ DoneAlone(r)
  /\ reqs[r].op \in SingleSettlements
  /\ reqs[r].emiId \in DOMAIN emis
  /\ LET e == reqs[r].emiId
         l == emis[e].loanId
     IN /\ pre.emis[e].status # "paid"
        /\ emis[e].status = "paid"
        /\ l \in DOMAIN loans
        /\ pre.loans[l].status = "approved"
        /\ loans[l].totalPaid = pre.loans[l].totalPaid + emis[e].totalAmount

\* C21: a failure while creating or delivering the settlement notification is
\* never reported as a failure of the settlement: when the ledger writes succeeded
\* the caller gets a success result
C21_NotificationFailureNotReported ==
  \A r \in ReqIds : LedgerWritten(r) => reqs[r].code = 200

\* C22: when the loan of an installment cannot be found during settlement the
\* operation fails with an error: no single settlement answers success having
\* saved the installment as paid without a loan to credit
C22_MissingLoanIsAnError ==
  \A r \in ReqIds :
    ( /\ reqs[r].pc = "done"
      /\ reqs[r].op \in SingleSettlements
      /\ reqs[r].emi # NullEMI
      /\ reqs[r].code = 200 )
    => reqs[r].loan # NullLoan

\* C27: deleting a loan removes all of its installments: once the requests have
\* ended, no installment references a loan that no longer exists
C27_NoInstallmentWithoutLoan ==
  Quiescent => \A e \in DOMAIN emis : emis[e].loanId \in DOMAIN loans

RECURSIVE SumBetween(_, _, _, _)
\* sum of f[x] over the x in S with lo <= x <= hi, taken by halves
SumBetween(f, S, lo, hi) ==
  IF lo > hi THEN 0
  ELSE IF lo = hi THEN (IF lo \in S THEN f[lo] ELSE 0)
  ELSE LET mid == (lo + hi) \div 2
       IN SumBetween(f, S, lo, mid) + SumBetween(f, S, mid + 1, hi)

\* the sum of a field over a set of installments
PrincipalOf(S) == SumBetween([e \in DOMAIN emis |-> emis[e].principalAmount], S, 1, nextEmiId - 1)
InterestOf(S) == SumBetween([e \in DOMAIN emis |-> emis[e].interestAmount], S, 1, nextEmiId - 1)

\* an approval served alone has been answered 200
ApprovalDone(r) == DoneAlone(r) /\ reqs[r].op = "approve" /\ reqs[r].code = 200

\* the installments the approval in slot r generated
Generated(r) == {e \in DOMAIN emis \ DOMAIN pre.emis : emis[e].loanId = reqs[r].loanId}

\* C23: for an approved loan with amount A in 1000..100000, totalDays N in
\* 1..365 and rate 20 the generated schedule has exactly N installments, the
\* principal amounts add up to at least A and at most A + N - 1, and the
\* interest amounts to at least ceil(A*20/100) and at most that plus N - 1.
\* For whole numbers k and a real x, k >= ceil(x) iff k >= x, and
\* k <= ceil(x) iff k - 1 < x; the bounds on the interest are stated in
\* hundredths in that form.
C23_ScheduleSumsWithinRounding ==
  \A r \in ReqIds : ApprovalDone(r) =>
    LET l == reqs[r].loanId
        A == loans[l].amount
        N == loans[l].totalDays
        S == Generated(r)
        principal == PrincipalOf(S)
        interest == InterestOf(S)
    IN /\ A >= 1000 /\ A <= 100000 /\ N >= 1 /\ N <= 365
       /\ Cardinality(S) = N
       /\ principal >= A
       /\ principal - A <= N - 1
       /\ 100 * interest >= A * 20
       /\ 100 * (interest - N) < A * 20

\* a schedule of seven installments for an amount seven does not divide has
\* been generated: both sums exceed their base
C23_RoundedScheduleGenerated ==
  \E r \in ReqIds :
    /\ ApprovalDone(r)
    /\ loans[reqs[r].loanId].amount = 54321
    /\ loans[reqs[r].loanId].totalDays = 7
    /\ PrincipalOf(Generated(r)) > 54321
    /\ InterestOf(Generated(r)) > 10865

\* C24: after approval the loan's stored dailyEMI is ceil(amount/totalDays) +
\* ceil(amount*interestRate/100/totalDays), every generated installment has
\* principalAmount + interestAmount equal to it, and remainingBalance is
\* amount + amount*interestRate/100 (in hundredths here); 10000 over 100 days
\* gives 120 and 12000; also when the admin changed amount or totalDays.
C24_StoredTermsMatchSchedule ==
  \A r \in ReqIds : ApprovalDone(r) =>
    LET loan == loans[reqs[r].loanId]
        A == loan.amount
        N == loan.totalDays
        R == loan.interestRate
    IN /\ loan.dailyEMI = CeilDiv(A, N) + CeilDiv(A * R, 100 * N)
       /\ \A e \in Generated(r) :
            emis[e].principalAmount + emis[e].interestAmount = loan.dailyEMI
       /\ loan.remainingBalance = 100 * A + A * R
       /\ (A = 10000 /\ N = 100) => (loan.dailyEMI = 120 /\ loan.remainingBalance = 100 * 12000)

\* an approval in which the admin changed both the amount and the duration has
\* been answered, and the stored installment differs from the application's
C24_AdminChangedTerms ==
  \E r \in ReqIds :
    /\ ApprovalDone(r)
    /\ reqs[r].amount # NoArg /\ reqs[r].amount # pre.loans[reqs[r].loanId].amount
    /\ reqs[r].days # NoArg /\ reqs[r].days # pre.loans[reqs[r].loanId].totalDays
    /\ loans[reqs[r].loanId].dailyEMI # pre.loans[reqs[r].loanId].dailyEMI
    /\ Generated(r) # {}

\* the request in slot r is an application or an approval that fails validation
FailsValidation(r) ==
  \/ /\ reqs[r].op = "apply"
     /\ \/ ~reqs[r].complete
        \/ reqs[r].amount = NoArg
        \/ reqs[r].amount < 1000 \/ reqs[r].amount > 100000
  \/ /\ reqs[r].op = "approve"
     /\ \/ reqs[r].amount # NoArg /\ (reqs[r].amount < 1000 \/ reqs[r].amount > 100000)
        \/ reqs[r].days # NoArg /\ (reqs[r].days < 1 \/ reqs[r].days > 365)

\* C28: a request that fails validation (application with a missing field or
\* an amount outside 1000..100000; approval with an amount outside 1000..100000
\* or totalDays outside 1..365) is rejected and the persisted state is
\* unchanged: no loan created or modified, no installment created.
C28_InvalidRequestChangesNothing ==
  \A r \in ReqIds : (DoneAlone(r) /\ FailsValidation(r)) =>
    /\ reqs[r].code = 400
    /\ loans = pre.loans
    /\ emis = pre.emis
    /\ notifs = pre.notifs

\* an approval that changes the amount within range and asks for 366 days has
\* been answered for a pending loan
C28_ApprovalOutOfRangeAnswered ==
  \E r \in ReqIds :
    /\ DoneAlone(r) /\ reqs[r].op = "approve"
    /\ reqs[r].loanId \in DOMAIN loans
    /\ loans[reqs[r].loanId].status = "pending"
    /\ reqs[r].amount = 54321
    /\ reqs[r].days = 366
    /\ reqs[r].code = 400

\* the moves off the autopay machine none -> pending -> active ->
\* {paused | cancelled} that the claim names
NamedAutopayMoves == {<<"none", "active">>, <<"cancelled", "pending">>,
                      <<"cancelled", "active">>, <<"none", "cancelled">>}

\* C25: the autopay sub-state of a loan changes only along none -> pending ->
\* active -> {paused | cancelled}; in particular setup-autopay, verify-autopay,
\* cancel-autopay and the subscription.cancelled webhook never move it from
\* none to active, from cancelled back to pending or active, or from none to
\* cancelled.  The formula is the second half, which the first entails.
C25_AutopayFollowsMachine ==
  [][\A l \in DOMAIN loans \cap DOMAIN loans' :
       <<loans[l].autopayStatus, loans'[l].autopayStatus>> \notin NamedAutopayMoves]_vars

\* C26: an installment settled after its due date has passed (dueDate earlier
\* than the start of the day of settlement) was overdue before it became paid;
\* only installments settled on or before their due date go from pending to
\* paid directly
C26_LateSettlementWasOverdue ==
  \A r \in ReqIds :
    (/\ DoneAlone(r) /\ reqs[r].op \in SingleSettlements /\ reqs[r].code = 200
     /\ reqs[r].emiId \in DOMAIN emis \cap DOMAIN pre.emis
     /\ pre.emis[reqs[r].emiId].status # "paid"
     /\ emis[reqs[r].emiId].status = "paid"
     /\ emis[reqs[r].emiId].dueDate < emis[reqs[r].emiId].paidAt)
    => pre.emis[reqs[r].emiId].status = "overdue"

\* C29: in every reachable state and for every installment, totalAmount =
\* principalAmount + interestAmount + penaltyAmount
C29_TotalIsSumOfParts ==
  \A e \in DOMAIN emis :
    emis[e].totalAmount =
      emis[e].principalAmount + emis[e].interestAmount + emis[e].penaltyAmount

\* an installment's penalty has been raised a second time while sweeps and a
\* settlement of the same loan overlapped
C29_PenaltyRaisedTwice ==
  \E e \in DOMAIN emis :
    /\ emis[e].penaltyAmount > emis[e].interestAmount
    /\ emis[e].interestAmount > 0
    /\ \E x \in DOMAIN emis : emis[x].loanId = emis[e].loanId /\ emis[x].status = "paid"

\* a single settlement served alone has been answered 200 for an installment
\* whose loan exists
SettledAlone(r) ==
  /\ DoneAlone(r) /\ reqs[r].op \in SingleSettlements /\ reqs[r].code = 200
  /\ reqs[r].emiId \in DOMAIN pre.emis
  /\ pre.emis[reqs[r].emiId].loanId \in DOMAIN pre.loans

\* the fields a settlement may write
SettledEmiFields == {"status", "paidAt", "razorpayPaymentId"}
SettledLoanFields == {"totalPaid", "remainingBalance", "status"}

\* C30: a settlement of an installment changes only that installment's status,
\* paidAt and payment reference and the loan's totalPaid, remainingBalance and
\* status: principalAmount, interestAmount, penaltyAmount, totalAmount,
\* dayNumber and dueDate of the installment and the loan's penaltyAmount stay,
\* totalPaid grows by totalAmount (penalty included) and remainingBalance drops
\* by principalAmount + interestAmount only (in hundredths here)
C30_SettlementFrame ==
  \A r \in ReqIds : SettledAlone(r) =>
    LET e == reqs[r].emiId
        old == pre.emis[e]
        l == old.loanId
    IN /\ DOMAIN emis = DOMAIN pre.emis
       /\ \A x \in DOMAIN emis \ {e} : emis[x] = pre.emis[x]
       /\ \A f \in DOMAIN old \ SettledEmiFields : emis[e][f] = old[f]
       /\ emis[e].status = "paid"
       /\ DOMAIN loans = DOMAIN pre.loans
       /\ \A x \in DOMAIN loans \ {l} : loans[x] = pre.loans[x]
       /\ \A f \in DOMAIN loans[l] \ SettledLoanFields : loans[l][f] = pre.loans[l][f]
       /\ loans[l].status \in {pre.loans[l].status, "completed"}
       /\ loans[l].totalPaid = pre.loans[l].totalPaid + old.totalAmount
       /\ loans[l].remainingBalance =
            pre.loans[l].remainingBalance - 100 * (old.principalAmount + old.interestAmount)

\* an overdue installment that carries a penalty has been settled
C30_SettledWithPenalty ==
  \E r \in ReqIds :
    /\ SettledAlone(r)
    /\ pre.emis[reqs[r].emiId].status = "overdue"
    /\ pre.emis[reqs[r].emiId].penaltyAmount > 0
    /\ emis[reqs[r].emiId].status = "paid"
    /\ loans[pre.emis[reqs[r].emiId].loanId].penaltyAmount > 0

\* C31: an overdue sweep leaves unchanged every installment that is paid and
\* every installment whose dueDate is on or after the start of the current day
\* (an installment due today is not made overdue and gets no penalty), and it
\* never changes a loan's totalPaid, remainingBalance or status
C31_SweepFrame ==
  \A r \in ReqIds : SweepDone(r) =>
    /\ DOMAIN emis = DOMAIN pre.emis
    /\ \A e \in DOMAIN pre.emis :
         (pre.emis[e].status = "paid" \/ pre.emis[e].dueDate >= reqs[r].cutoff) =>
           emis[e] = pre.emis[e]
    /\ DOMAIN loans = DOMAIN pre.loans
    /\ \A l \in DOMAIN loans :
         /\ loans[l].totalPaid = pre.loans[l].totalPaid
         /\ loans[l].remainingBalance = pre.loans[l].remainingBalance
         /\ loans[l].status = pre.loans[l].status

\* a sweep has penalised a late installment of a loan that also has a late
\* installment already paid
C31_SweepPassedOverPaid ==
  \E r \in ReqIds :
    /\ SweepDone(r)
    /\ \E e, x \in DOMAIN pre.emis :
         /\ pre.emis[e].loanId = pre.emis[x].loanId
         /\ pre.emis[e].status = "paid" /\ pre.emis[e].dueDate < reqs[r].cutoff
         /\ emis[x].penaltyAmount > pre.emis[x].penaltyAmount

\* C32: each installment's dueDate is the loan's startDate plus dayNumber - 1
\* days, startDate being the day after the approval is processed; hence due
\* dates are strictly increasing in dayNumber and loan.endDate is the dueDate
\* of the installment with dayNumber = totalDays
C32_DueDatesFollowStartDate ==
  \A r \in ReqIds :
    /\ At(r, "approve", "insertMany") => reqs[r].lmem.startDate = reqs[r].now + 1
    /\ ApprovalDone(r) =>
         LET loan == loans[reqs[r].loanId]
             S == Generated(r)
         IN /\ \A e \in S : emis[e].dueDate = loan.startDate + emis[e].dayNumber - 1
            /\ \A e, x \in S : emis[e].dayNumber < emis[x].dayNumber =>
                                  emis[e].dueDate < emis[x].dueDate
            /\ \E e \in S : emis[e].dayNumber = loan.totalDays
            /\ \A e \in S : emis[e].dayNumber = loan.totalDays => loan.endDate = emis[e].dueDate

\* a loan of 365 installments has been approved on a day after the first
C32_YearLongScheduleGenerated ==
  \E r \in ReqIds :
    /\ ApprovalDone(r)
    /\ loans[reqs[r].loanId].totalDays = 365
    /\ loans[reqs[r].loanId].startDate > 1
    /\ Cardinality(Generated(r)) = 365

\* C33: for a loan with u unpaid installments when autopay is set up the
\* subscription is created with ceil(u/7) billing cycles, and if each cycle's
\* charge is delivered exactly once and no other settlement happens, then after
\* the last charge every installment is paid and the loan is completed
C33_ChargesSettleWholeLoan ==
  /\ \A r \in ReqIds : At(r, "setupAutopay", "save") =>
       (7 * subs.total >= reqs[r].cnt /\ 7 * (subs.total - 1) < reqs[r].cnt)
  /\ (Quiescent /\ subs.total > 0 /\ subs.charged = subs.total) =>
       /\ subs.loanId \in DOMAIN loans
       /\ UnpaidOf(subs.loanId) = {}
       /\ loans[subs.loanId].status = "completed"

\* the penalty an installment carries after a sweep with the given cutoff, from
\* its dueDate alone when it is unpaid, as it was frozen when it is paid
PenaltyAt(e, cutoff) ==
  IF emis[e].status = "paid" THEN emis[e].penaltyAmount
  ELSE IF emis[e].dueDate < cutoff THEN emis[e].interestAmount * (cutoff - emis[e].dueDate)
  ELSE 0

\* C34: the penalty of an unpaid overdue installment depends only on the cutoff
\* day of the latest sweep and its dueDate, not on how many sweeps ran before:
\* after a sweep on day D the installment is what one sweep on day D makes of the
\* installment as it was generated, and the loan's penalty is the sum of these
C34_PenaltyIsFunctionOfCutoff ==
  \A r \in ReqIds :
    SweepDone(r) =>
      /\ \A e \in DOMAIN emis :
           emis[e].status # "paid" =>
             /\ emis[e].penaltyAmount = PenaltyAt(e, reqs[r].cutoff)
             /\ emis[e].totalAmount =
                  emis[e].principalAmount + emis[e].interestAmount + PenaltyAt(e, reqs[r].cutoff)
             /\ emis[e].status = IF emis[e].dueDate < reqs[r].cutoff THEN "overdue" ELSE "pending"
      /\ \A l \in DOMAIN loans :
           loans[l].penaltyAmount =
             SumOver([e \in DOMAIN emis |-> PenaltyAt(e, reqs[r].cutoff)], EmisOf(l))

\* a sweep has returned that was the first to find an installment two days late,
\* next to an installment an earlier day's sweep had already penalised
C34_OneSweepAfterTwoDays ==
  \E r \in ReqIds :
    /\ SweepDone(r)
    /\ \E e \in DOMAIN emis :
         /\ pre.emis[e].status = "pending"
         /\ pre.emis[e].penaltyAmount = 0
         /\ reqs[r].cutoff - emis[e].dueDate = 2
         /\ emis[e].penaltyAmount = 2 * emis[e].interestAmount

\* pending installments carry no penalty, overdue ones at least a day's
PenaltyMatchesStatus ==
  \A e \in DOMAIN emis :
    /\ emis[e].status = "pending" => emis[e].penaltyAmount = 0
    /\ emis[e].status = "overdue" =>
         (emis[e].penaltyAmount >= emis[e].interestAmount /\ emis[e].interestAmount > 0)

\* a write that makes an installment overdue raises its penalty
OverdueOnlyWithIncrease ==
  \A e \in DOMAIN emis :
    (e \in DOMAIN emis' /\ emis[e].status # "overdue" /\ emis'[e].status = "overdue")
      => emis'[e].penaltyAmount > emis[e].penaltyAmount

\* C35: in every state reached by non-overlapping operations, an installment
\* with status pending has penaltyAmount = 0 and an installment with status
\* overdue has penaltyAmount >= interestAmount > 0; status overdue is only ever
\* persisted together with a penalty increase
C35_PenaltyMatchesStatus == [](PenaltyMatchesStatus) /\ [][OverdueOnlyWithIncrease]_vars

\* every request has returned and a loan has an overdue installment carrying a
\* day's penalty next to a pending one that is not yet late
C35_OverdueNextToPending ==
  /\ Quiescent
  /\ \E e, f \in DOMAIN emis :
       /\ emis[e].status = "overdue"
       /\ emis[e].penaltyAmount = emis[e].interestAmount
       /\ emis[f].status = "pending"
       /\ emis[f].dueDate >= today
       /\ emis[f].loanId = emis[e].loanId

\* amounts whose interest is whole (1000) and fractional (1001, 1004), over
\* schedules of one to three days
BalanceAmounts == {1000, 1001, 1004}
BalanceDays == {1, 2, 3}

\* a loan is applied for, approved and paid off installment by installment, each
\* settled once (simulate refuses a paid installment), while days
\* pass and the overdue sweep runs
NextBalance ==
  \/ Tick
  \/ \E r \in ReqIds :
       \/ Retire(r)
       \/ \E u \in Applicants, a \in BalanceAmounts : ApplyFind(r, u, a)
       \/ ApplySave(r) \/ ApplyNotify(r)
       \/ \E l \in LoanArgs, d \in BalanceDays : ApproveFind(r, l, NoArg, d)
       \/ ApproveInsertMany(r) \/ ApproveSaveLoan(r) \/ ApproveNotify(r)
       \/ \E e \in EmiArgs : SimulateFind(r, emis[e].userId, e)
       \/ SimulateSaveEmi(r) \/ SimulateFindLoan(r) \/ SimulateCount(r)
       \/ SimulateSaveLoan(r) \/ SimulateNotify(r)
       \/ SweepFind(r)
       \/ SweepSaveEmi(r) \/ SweepIncLoan(r)

SpecBalance == Init /\ [][NextBalance]_vars

\* what the schedule collects for loan l, in hundredths: totalDays installments of
\* ceil(amount / totalDays) + ceil(totalInterest / totalDays)
Collected(l) ==
  Hundredths(loans[l].totalDays *
    (CeilDiv(loans[l].amount, loans[l].totalDays)
       + CeilDiv(TotalInterest(loans[l].amount, FixedInterestRate), Hundredths(loans[l].totalDays))))

\* what loan l owes when it is approved, in hundredths
Owed(l) == Hundredths(loans[l].amount) + TotalInterest(loans[l].amount, loans[l].interestRate)

\* every request has returned and every installment of loan l is paid
PaidOff(l) == Quiescent /\ EmisOf(l) # {} /\ UnpaidOf(l) = {}

\* every settlement served alone lowers remainingBalance by one installment's
\* principal and interest, the same for every installment of the loan
SameDecreaseEachTime ==
  \A r \in ReqIds :
    SettledAlone(r) =>
      LET l == reqs[r].emi.loanId IN
        loans[l].totalDays * (pre.loans[l].remainingBalance - loans[l].remainingBalance)
          = Collected(l)

\* C36 as stated: when every installment of a loan has been settled exactly
\* once, remainingBalance = (amount + totalInterest) - totalDays *
\* (dailyPrincipal + dailyInterest), which is <= 0 and >= -2 * (totalDays - 1);
\* before that point it decreases by the same fixed amount at each settlement
C36_BalanceWithinTwiceDays ==
  /\ SameDecreaseEachTime
  /\ \A l \in DOMAIN loans :
       PaidOff(l) =>
         /\ loans[l].remainingBalance = Owed(l) - Collected(l)
         /\ loans[l].remainingBalance <= 0
         /\ loans[l].remainingBalance >= - Hundredths(2 * (loans[l].totalDays - 1))

\* C36, amended: the final remainingBalance is (amount + totalInterest) -
\* totalDays * (dailyPrincipal + dailyInterest), which is <= 0 and
\* > -2 * (totalDays - 1) - 1 for whole-rupee amounts; before that point it
\* decreases by the same fixed amount at each settlement
C36_BalanceWithinRounding ==
  /\ SameDecreaseEachTime
  /\ \A l \in DOMAIN loans :
       PaidOff(l) =>
         /\ loans[l].remainingBalance = Owed(l) - Collected(l)
         /\ loans[l].remainingBalance <= 0
         /\ loans[l].remainingBalance > - Hundredths(2 * (loans[l].totalDays - 1)) - Hundredths(1)

\* a loan of 1001 over two days is paid off, one installment late with its
\* penalty, and its balance ends at -2.80
C36_PaidOffBelowTwiceDays ==
  \E l \in DOMAIN loans :
    /\ PaidOff(l)
    /\ loans[l].amount = 1001
    /\ loans[l].totalDays = 2
    /\ loans[l].remainingBalance = -280
    /\ loans[l].penaltyAmount > 0
    /\ loans[l].status = "completed"

\* C37: installments exist only for loans whose status is approved or completed:
\* once every request has returned no pending or rejected loan has an
\* installment, also when approve and reject requests for the same loan
\* interleave or an approval fails halfway
C37_InstallmentsOnlyForApproved ==
  Quiescent =>
    \A e \in DOMAIN emis :
      emis[e].loanId \in DOMAIN loans =>
        loans[emis[e].loanId].status \in {"approved", "completed"}

\* C38: in every reachable state a loan's autopayEnabled flag is true if and
\* only if its autopayStatus is active, across setup-autopay, verify-autopay,
\* cancel-autopay and the subscription.cancelled webhook
C38_EnabledIffActive ==
  \A l \in DOMAIN loans :
    loans[l].autopayEnabled <=> loans[l].autopayStatus = "active"

\* the request in slot r names an installment of another user
ByStranger(r) ==
  /\ reqs[r].op \in {"simulate", "verify"}
  /\ pre.set
  /\ reqs[r].emiId \in DOMAIN pre.emis
  /\ pre.emis[reqs[r].emiId].userId # reqs[r].user

\* C39: only the borrower who owns an installment can move it to paid through
\* the user-facing payment endpoints: a simulate or verify request for an
\* installment whose userId differs from the authenticated user is rejected and
\* changes no installment or loan
C39_OnlyOwnerPays ==
  \A r \in ReqIds :
    ByStranger(r) =>
      /\ reqs[r].pc = "done" => reqs[r].code # 200
      /\ emis = pre.emis
      /\ loans = pre.loans

\* the loans of user u that wait for the admin's decision
PendingOf(u) == {l \in DOMAIN loans : loans[l].userId = u /\ loans[l].status = "pending"}

\* C40: a user has at most one loan in status pending at any time: a loan
\* application by a user who already has a pending loan is rejected and creates
\* no loan, including when two applications by the same user are processed
\* concurrently
C40_AtMostOnePendingLoan ==
  /\ \A u \in Users : Cardinality(PendingOf(u)) <= 1
  /\ \A r \in ReqIds :
       (reqs[r].op = "apply" /\ pre.set /\ \E l \in DOMAIN pre.loans :
            pre.loans[l].userId = reqs[r].user /\ pre.loans[l].status = "pending") =>
         /\ reqs[r].pc = "done"
         /\ reqs[r].code = 400
         /\ loans = pre.loans

\* the approved loan the concurrent specifications start from is a state the
\* serial specification reaches
NotYetApproved ==
  ~ ( /\ Quiescent
      /\ \E u \in Applicants, a \in Amounts, d \in DayChoices : Approved(u, a, d) )

====
